---- MODULE Spec2Model ----
(***************************************************************************)
(* Model of the client-side apply engine of simplekube/kit:                *)
(*   - pkg/k8s/internal/apply: Merge and its helpers, detectListMapKey     *)
(*   - pkg/k8s: DeleteNullInUnstructuredMap (the null/empty stripper)      *)
(* Documents are Go values of dynamic type interface{}; they are modelled  *)
(* as tagged records so that every type switch of the code has a faithful  *)
(* counterpart.                                                            *)
(***************************************************************************)
EXTENDS Integers, Sequences, FiniteSets, TLC

(***************************************************************************)
(* Bounds of the model.                                                    *)
(***************************************************************************)
\* longest list of maps that is fed to Merge
MaxListLen == 2
\* total number of elements spread over the lists given to detectListMapKey
MaxDetectItems == 3
\* longest list of the family that puts the merge key in doubt
MaxOddLen == 2
\* how many times the two-object merge is applied in a row
MaxRounds == 2
\* how deep maps and lists nest below the fields of a document to strip
StripDepth == 2

(***************************************************************************)
(* The document model: the dynamic types an interface{} value can hold.    *)
(***************************************************************************)
Null == [t |-> "null"]
Str(s) == [t |-> "string", v |-> s]
Int64(n) == [t |-> "int64", v |-> n]
Float64(n) == [t |-> "float64", v |-> n]
Bool(b) == [t |-> "bool", v |-> b]
\* a plain Go int: not one of the unstructured types
PlainInt(n) == [t |-> "int", v |-> n]
List(s) == [t |-> "list", nil |-> FALSE, v |-> s]
NilList == [t |-> "list", nil |-> TRUE, v |-> << >>]
Map(f) == [t |-> "map", nil |-> FALSE, v |-> f]
NilMap == [t |-> "map", nil |-> TRUE, v |-> << >>]
EmptyMap == Map(<< >>)

IsMap(d) == d.t = "map"
IsList(d) == d.t = "list"
IsNull(d) == d.t = "null"
IsScalar(d) == d.t \in {"string", "int64", "float64", "bool", "int"}

\* m[key] on a Go map: the nil interface when the key is missing
Get(f, k) == IF k \in DOMAIN f THEN f[k] ELSE Null

\* v, ok := x.(map[string]interface{}): the zero value (a nil map) when !ok
AssertMap(x) == IF IsMap(x) THEN [ok |-> TRUE, val |-> x] ELSE [ok |-> FALSE, val |-> NilMap]
\* v, ok := x.([]interface{}): the zero value (a nil slice) when !ok
AssertList(x) == IF IsList(x) THEN [ok |-> TRUE, val |-> x] ELSE [ok |-> FALSE, val |-> NilList]

\* a (value, error) pair as returned by the merge functions
Ok(d) == [err |-> "", val |-> d]
Err(e) == [err |-> e, val |-> Null]

Range(s) == {s[i] : i \in 1..Len(s)}

(***************************************************************************)
(* fmt.Sprintf("%v", n) for the small integers of the model.               *)
(***************************************************************************)
FormatInt(n) == CASE n = 0 -> "0" [] n = 1 -> "1" [] n = 2 -> "2" [] n = 7 -> "7" [] n = 10 -> "10"

\* the field names of the model in the order in which fmt prints map keys
\* (sorted)
SortedFields == << "c", "f", "id", "image", "name", "p", "q", "r", "v", "x", "y" >>

RECURSIVE joinWords(_)
\* the words separated by single spaces
joinWords(words) ==
  IF words = << >> THEN ""
  ELSE IF Len(words) = 1 THEN words[1]
  ELSE words[1] \o " " \o joinWords(Tail(words))

RECURSIVE formatValue(_)
\* fmt.Sprintf("%v", val)
formatValue(val) ==
  CASE val.t = "string" -> val.v
    [] val.t \in {"int64", "int", "float64"} -> FormatInt(val.v)
    [] val.t = "bool" -> IF val.v THEN "true" ELSE "false"
    [] val.t = "null" -> "<nil>"
    [] val.t = "list" -> "[" \o joinWords([i \in 1..Len(val.v) |-> formatValue(val.v[i])]) \o "]"
    [] val.t = "map" ->
         LET keys == SelectSeq(SortedFields, LAMBDA k : k \in DOMAIN val.v) IN
         "map[" \o joinWords([i \in 1..Len(keys) |-> keys[i] \o ":" \o formatValue(val.v[keys[i]])]) \o "]"

\* stringMergeKey: strings as they are, anything else through %v
stringMergeKey(val) ==
  CASE val.t = "string" -> val.v
    [] OTHER -> formatValue(val)

(***************************************************************************)
(* detectListMapKey                                                        *)
(***************************************************************************)
\* mutant of knownMergeKeys: name takes precedence over id
knownMergeKeys_NameFirst == << "uid", "name", "alias", "id", "key", "component", "containerPort", "container-port", "port", "ip" >>

knownMergeKeys == << "uid", "id", "alias", "name", "key", "component", "containerPort", "container-port", "port", "ip" >>

RECURSIVE Flatten(_)
\* the items of all lists in the order the two nested loops visit them
Flatten(lists) == IF lists = << >> THEN << >> ELSE Head(lists) \o Flatten(Tail(lists))

\* commonKeys is a Go map[string]bool: nil until the first item is seen
NilKeys == [nil |-> TRUE, keys |-> {}]

RECURSIVE detectScan(_, _)
\* the loop over the items: "notmaps" stands for the early `return ""`
detectScan(items, commonKeys) ==
  IF items = << >> THEN [notmaps |-> FALSE, commonKeys |-> commonKeys]
  ELSE LET item == Head(items) IN
       IF ~IsMap(item) THEN [notmaps |-> TRUE, commonKeys |-> commonKeys]
       ELSE IF commonKeys.nil
            THEN detectScan(Tail(items), [nil |-> FALSE, keys |-> DOMAIN item.v])
            ELSE detectScan(Tail(items), [nil |-> FALSE, keys |-> {key \in commonKeys.keys : key \in DOMAIN item.v}])

RECURSIVE firstKnownKey(_, _)
\* the final loop over knownMergeKeys, from index i on
firstKnownKey(i, keys) ==
  IF i > Len(knownMergeKeys) THEN ""
  ELSE IF knownMergeKeys[i] \in keys THEN knownMergeKeys[i]
  ELSE firstKnownKey(i + 1, keys)

detectListMapKey(lists) ==
  LET scan == detectScan(Flatten(lists), NilKeys) IN
  IF scan.notmaps THEN "" ELSE firstKnownKey(1, scan.commonKeys.keys)

(***************************************************************************)
(* The three-way merge                                                     *)
(***************************************************************************)
\* makeMapFromList: a later item overwrites an earlier one with the same key
makeMapFromList(mergeKey, list) ==
  LET keyOf(i) == stringMergeKey(Get(list[i].v, mergeKey))
      last(k) == CHOOSE i \in 1..Len(list) : keyOf(i) = k /\ \A j \in 1..Len(list) : keyOf(j) = k => j <= i
  IN [k \in {keyOf(i) : i \in 1..Len(list)} |-> list[last(k)]]

\* mutant of deletionPass: every key that desired lacks is deleted
deletionPass_DropUnmanaged(observed, lastApplied, desired) ==
  [k \in {key \in DOMAIN observed : key \in DOMAIN desired} |-> observed[k]]

\* mutant of deletionPass: the deletion loop is skipped
deletionPass_Skipped(observed, lastApplied, desired) == observed

\* the deletion loop of mergeMapToObserved: observed without the keys that
\* lastApplied has and desired has not
deletionPass(observed, lastApplied, desired) ==
  [k \in {key \in DOMAIN observed : ~(key \in DOMAIN lastApplied /\ key \notin DOMAIN desired)} |-> observed[k]]

\* mutant of mergeLeaf: an observed scalar is kept
mergeLeaf_KeepObserved(observed, lastApplied, desired) ==
  IF IsNull(observed) THEN Ok(desired) ELSE Ok(observed)

\* the terminal case of mergeToObserved: observed is a scalar or nil
mergeLeaf(observed, lastApplied, desired) == Ok(desired)

\* mutant of replaceList: the observed list is kept
replaceList_KeepObserved(observed, lastApplied, desired) == Ok(observed)

\* mutant of replaceList: the desired elements are appended to the observed ones
replaceList_Append(observed, lastApplied, desired) == Ok(List(observed.v \o desired.v))

\* the fallback of mergeArrayToObserved: no merge key
replaceList(observed, lastApplied, desired) == Ok(desired)

\* the two loops of mergeListMapToObserved that turn the merged map into a list
RECURSIVE appendDesired(_, _, _, _)
appendDesired(keys, merged, added, out) ==
  IF keys = << >> THEN out
  ELSE IF Head(keys) \in added THEN appendDesired(Tail(keys), merged, added, out)
  ELSE appendDesired(Tail(keys), merged, added \cup {Head(keys)}, Append(out, Get(merged, Head(keys))))

\* mutant of orderedList: the elements that desired introduces are not appended
orderedList_ObservedOnly(mergeKey, observed, desired, merged) ==
  LET keyOf(item) == stringMergeKey(Get(item.v, mergeKey))
      obsKeys == [i \in 1..Len(observed) |-> keyOf(observed[i])]
      kept == SelectSeq(obsKeys, LAMBDA k : k \in DOMAIN merged)
  IN [i \in 1..Len(kept) |-> merged[kept[i]]]

\* mutant of orderedList: the elements of desired come first, in desired's order
orderedList_DesiredFirst(mergeKey, observed, desired, merged) ==
  LET keyOf(item) == stringMergeKey(Get(item.v, mergeKey))
      obsKeys == [i \in 1..Len(observed) |-> keyOf(observed[i])]
      desKeys == [i \in 1..Len(desired) |-> keyOf(desired[i])]
      kept == SelectSeq(obsKeys, LAMBDA k : k \in DOMAIN merged /\ k \notin Range(desKeys))
      first == appendDesired(desKeys, merged, {}, << >>)
  IN first \o [i \in 1..Len(kept) |-> merged[kept[i]]]

orderedList(mergeKey, observed, desired, merged) ==
  LET keyOf(item) == stringMergeKey(Get(item.v, mergeKey))
      obsKeys == [i \in 1..Len(observed) |-> keyOf(observed[i])]
      desKeys == [i \in 1..Len(desired) |-> keyOf(desired[i])]
      kept == SelectSeq(obsKeys, LAMBDA k : k \in DOMAIN merged)
      first == [i \in 1..Len(kept) |-> merged[kept[i]]]
  IN appendDesired(desKeys, merged, Range(kept), first)

RECURSIVE mergeToObserved(_, _, _)
RECURSIVE mergeMapToObserved(_, _, _)
RECURSIVE mergeArrayToObserved(_, _, _)
RECURSIVE mergeListMapToObserved(_, _, _, _)

\* the type checks of mergeToObserved: the error is returned when the
\* assertion failed AND the asserted value is not nil
mismatch(asserted) == ~asserted.ok /\ ~asserted.val.nil

mergeToObserved(observed, lastApplied, desired) ==
  IF IsMap(observed) THEN
    LET lastAppliedVal == AssertMap(lastApplied)
        desiredVal == AssertMap(desired)
    IN IF mismatch(lastAppliedVal) THEN Err("TypeMismatch")
       ELSE IF mismatch(desiredVal) THEN Err("TypeMismatch")
       ELSE mergeMapToObserved(observed, lastAppliedVal.val, desiredVal.val)
  ELSE IF IsList(observed) THEN
    LET lastAppliedVal == AssertList(lastApplied)
        desiredVal == AssertList(desired)
    IN IF mismatch(lastAppliedVal) THEN Err("TypeMismatch")
       ELSE IF mismatch(desiredVal) THEN Err("TypeMismatch")
       ELSE mergeArrayToObserved(observed, lastAppliedVal.val, desiredVal.val)
  ELSE mergeLeaf(observed, lastApplied, desired)

\* observed, lastApplied and desired are map documents (possibly nil maps)
mergeMapToObserved(observed, lastApplied, desired) ==
  LET afterDelete == deletionPass(observed.v, lastApplied.v, desired.v)
      sub == [key \in DOMAIN desired.v |-> mergeToObserved(Get(afterDelete, key), Get(lastApplied.v, key), desired.v[key])]
      failed == {key \in DOMAIN desired.v : sub[key].err # ""}
  IN IF failed # {} THEN Err(sub[CHOOSE key \in failed : TRUE].err)
     \* observed[key] = ... on a nil map: "assignment to entry in nil map"
     ELSE IF observed.nil /\ DOMAIN desired.v # {} THEN Err("panic")
     ELSE Ok([t |-> "map", nil |-> observed.nil,
              v |-> [key \in DOMAIN afterDelete \cup DOMAIN desired.v |->
                       IF key \in DOMAIN desired.v THEN sub[key].val ELSE afterDelete[key]]])

\* observed, lastApplied and desired are list documents (possibly nil slices)
mergeArrayToObserved(observed, lastApplied, desired) ==
  LET mergeKey == detectListMapKey(<< observed.v, lastApplied.v, desired.v >>) IN
  IF mergeKey # "" THEN mergeListMapToObserved(mergeKey, observed, lastApplied, desired)
  ELSE replaceList(observed, lastApplied, desired)

mergeListMapToObserved(mergeKey, observed, lastApplied, desired) ==
  LET observedMap == makeMapFromList(mergeKey, observed.v)
      lastAppliedMap == makeMapFromList(mergeKey, lastApplied.v)
      desiredMap == makeMapFromList(mergeKey, desired.v)
      merged == mergeMapToObserved(Map(observedMap), Map(lastAppliedMap), Map(desiredMap))
  IN IF merged.err # "" THEN Err(merged.err)
     ELSE Ok(List(orderedList(mergeKey, observed.v, desired.v, merged.val.v)))

RECURSIVE canDeepCopy(_)
\* runtime.DeepCopyJSONValue panics on a value that is not a JSON type
canDeepCopy(x) ==
  CASE x.t = "map" -> \A k \in DOMAIN x.v : canDeepCopy(x.v[k])
    [] x.t = "list" -> \A i \in 1..Len(x.v) : canDeepCopy(x.v[i])
    [] x.t \in {"string", "int64", "bool", "float64", "null"} -> TRUE
    [] OTHER -> FALSE

RECURSIVE DeepCopyJSONValue(_)
\* the copy is rebuilt node by node; nil maps and nil slices stay nil
DeepCopyJSONValue(x) ==
  CASE x.t = "map" -> IF x.nil THEN x ELSE Map([k \in DOMAIN x.v |-> DeepCopyJSONValue(x.v[k])])
    [] x.t = "list" -> IF x.nil THEN x ELSE List([i \in 1..Len(x.v) |-> DeepCopyJSONValue(x.v[i])])
    [] OTHER -> x

\* Merge: the merged document and the error
Merge(observed, lastApplied, desired) ==
  IF ~canDeepCopy(observed) THEN Err("panic")
  ELSE LET observedAsDest == DeepCopyJSONValue(observed)
           res == mergeToObserved(observedAsDest, lastApplied, desired)
       IN IF res.err # "" THEN Err(res.err) ELSE Ok(res.val)


\* ThreeWayLocalMerge
ThreeWayLocalMerge(observed, lastApplied, desired) == Merge(observed, lastApplied, desired)

\* ThreeWayLocalMergeWithTwoObjects: a copy of desired stands in for lastApplied
ThreeWayLocalMergeWithTwoObjects(observed, desired) ==
  IF ~canDeepCopy(desired) THEN Err("panic")
  ELSE ThreeWayLocalMerge(observed, DeepCopyJSONValue(desired), desired)

(***************************************************************************)
(* The documents the merge is exercised on.  Every top-level document is a *)
(* map with at most the one field "f"; what the field holds is drawn from  *)
(* three families of values.                                               *)
(***************************************************************************)
SeqsUpTo(S, n) == UNION {[1..k -> S] : k \in 0..n}

\* maps over the keys p and q, with nesting below p
InnerMaps ==
  {Map(f) : f \in UNION {[K -> {Str("x"), Str("y")}] : K \in SUBSET {"p", "q"}}}
  \cup {Map("p" :> Map("r" :> Str("x"))), Map("p" :> Map("r" :> Str("y"))), Map("p" :> EmptyMap),
        Map("p" :> List(<< Str("x") >>)), Map("p" :> Null)}

\* list elements with the merge key "name"
NamedItems ==
  {Map(("name" :> Str("a")) @@ ("v" :> Str("x"))), Map(("name" :> Str("a")) @@ ("v" :> Str("y"))),
   Map(("name" :> Str("b")) @@ ("v" :> Str("x")))}

\* list elements that stress the detection and the stringified keys
OddItems ==
  {Map(("name" :> Int64(1)) @@ ("v" :> Str("x"))), Map(("name" :> Str("1")) @@ ("v" :> Str("y"))),
   Map(("id" :> Str("1")) @@ ("name" :> Str("b"))), Map("name" :> Str("a"))}

\* family 1: scalars, maps, lists of scalars, nil maps and slices, and a few
\* lists of maps, so that every pair of variants meets at the field
MixedValues ==
  {Null, Str("x"), Str("y"), Int64(1), PlainInt(7), NilMap, NilList,
   List(<< >>), List(<< Str("x") >>), List(<< Str("x"), Str("y") >>), List(<< Str("y") >>),
   List(<< Map(("name" :> Str("a")) @@ ("v" :> Str("x"))) >>),
   List(<< Map(("name" :> Str("a")) @@ ("v" :> Str("x"))), Map(("name" :> Str("a")) @@ ("v" :> Str("y"))) >>),
   List(<< Map("v" :> Str("x")) >>),
   List(<< Map(("name" :> Str("a")) @@ ("v" :> Str("x"))), Str("x") >>)}
  \cup InnerMaps

\* family 2: lists of maps keyed by name
NamedLists == {List(s) : s \in SeqsUpTo(NamedItems, MaxListLen)}

\* family 3: lists whose merge key is in doubt
OddLists == {List(s) : s \in SeqsUpTo(OddItems, MaxOddLen)}

Field(S) == {Map("f" :> w) : w \in S}

\* pc: where the caller is; observed, lastApplied, desired: the arguments of
\* the merge; doc: the argument of the stripper; lists: the arguments of
\* detectListMapKey; result: what the last call returned; prev: what the call
\* before it returned; round: how many calls were made;
\* cluster: the object that the cluster holds and the write requests it has
\* served; given: the object that the caller of CreateOrMerge wants applied;
\* baseRunOptions: the package variables behind RegisterBaseRunOptions;
\* callers: the goroutines that call RegisterBaseRunOptions
VARIABLES pc, observed, lastApplied, desired, doc, lists, result, prev, round,
          cluster, given, baseRunOptions, callers

vars == << pc, observed, lastApplied, desired, doc, lists, result, prev, round,
           cluster, given, baseRunOptions, callers >>

Idle == [err |-> "idle", val |-> Null]

\* a cluster without the object, which has served no write request
EmptyCluster == [object |-> Null, log |-> << >>]

\* the package variables as the program starts: _baseRunOptions is the empty
\* &RunOptions{}, the flag is false and the sync.Once has not run
Unregistered == [options |-> "none", registered |-> FALSE, once |-> "idle"]

\* no cluster is involved
NoCluster == cluster = EmptyCluster /\ given = NilMap

\* no goroutine calls RegisterBaseRunOptions
NoCallers == baseRunOptions = Unregistered /\ callers = << >>

(***************************************************************************)
(* SpecMerge: one call of Merge on a triple of documents.                  *)
(***************************************************************************)
InitMixed ==
  /\ observed \in Field(MixedValues) \cup {EmptyMap, NilMap}
  /\ lastApplied \in Field(MixedValues) \cup {EmptyMap, NilMap}
  /\ desired \in Field(MixedValues) \cup {EmptyMap, NilMap}

InitNamed ==
  /\ observed \in Field(NamedLists)
  /\ lastApplied \in Field(NamedLists)
  /\ desired \in Field(NamedLists)

InitOdd ==
  /\ observed \in Field(OddLists)
  /\ desired \in Field(OddLists)
  /\ lastApplied \in {NilMap, observed, desired}

InitMerge ==
  /\ pc = "ready"
  /\ doc = NilMap
  /\ lists = << >>
  /\ result = Idle
  /\ prev = Idle
  /\ round = 0
  /\ NoCluster
  /\ NoCallers
  /\ (InitMixed \/ InitNamed \/ InitOdd)

\* the caller invokes Merge(observed, lastApplied, desired)
MergeCall ==
  /\ pc = "ready"
  /\ result' = Merge(observed, lastApplied, desired)
  /\ pc' = "merged"
  /\ UNCHANGED << cluster, given, baseRunOptions, callers, observed, lastApplied, desired, doc, lists, prev, round >>

NextMerge == MergeCall

SpecMerge == InitMerge /\ [][NextMerge]_vars

(***************************************************************************)
(* Where the merge works: the places of a document triple that the         *)
(* recursion of Merge visits, each with the merged value found there.      *)
(***************************************************************************)
\* the entries of x when x is a map, none otherwise
MapV(x) == IF IsMap(x) THEN x.v ELSE << >>
\* the elements of x when x is a list, none otherwise
ListV(x) == IF IsList(x) THEN x.v ELSE << >>

RECURSIVE MapSites(_, _, _, _)
\* every path, through nested maps, at which observed holds a map and the
\* parent maps of desired hold the path: [o, l, d, m] are the observed map,
\* the lastApplied value, the desired value and the merged value there
MapSites(o, l, d, m) ==
  {[o |-> o, l |-> l, d |-> d, m |-> m]}
  \cup UNION {MapSites(o.v[k], Get(MapV(l), k), MapV(d)[k], m.v[k]) :
                k \in {key \in DOMAIN o.v \cap DOMAIN MapV(d) :
                         IsMap(o.v[key]) /\ IsMap(m) /\ key \in DOMAIN MapV(m)}}

\* every field, at those paths, that desired sets and where observed holds a list
ListSites(o, l, d, m) ==
  UNION {{[o |-> s.o.v[k], l |-> Get(MapV(s.l), k), d |-> MapV(s.d)[k], m |-> Get(MapV(s.m), k)] :
            k \in {key \in DOMAIN s.o.v \cap DOMAIN MapV(s.d) : IsList(s.o.v[key])}} :
         s \in MapSites(o, l, d, m)}

Merged == pc = "merged" /\ result.err = ""

\* the sites of the call that has just returned
Maps == MapSites(observed, lastApplied, desired, result.val)
Lists == ListSites(observed, lastApplied, desired, result.val)

\* a value that is there, is not null and has another variant than observed
OtherVariant(o, x) == ~IsNull(x) /\ x.t # o.t

\* the merge key that detection finds at a list site
SiteKey(s) == detectListMapKey(<< s.o.v, ListV(s.l), ListV(s.d) >>)
\* the stringified merge-key values of a list, in order and as a set
KeySeq(mergeKey, list) == [i \in 1..Len(list) |-> stringMergeKey(Get(MapV(list[i]), mergeKey))]
KeySet(mergeKey, list) == Range(KeySeq(mergeKey, list))

(***************************************************************************)
(* C1: Merge returns a TypeMismatch error and no document whenever, at a   *)
(* path it visits, observed holds a map (a list) and lastApplied or        *)
(* desired holds a non-null value that is not a map (a list).              *)
(* This is the claim as stated; the code never returns the error.          *)
(***************************************************************************)
C1_MapOrListMismatch ==
  \/ \E s \in MapSites(observed, lastApplied, desired, observed) :
       OtherVariant(s.o, s.l) \/ OtherVariant(s.o, s.d)
  \/ \E s \in ListSites(observed, lastApplied, desired, observed) :
       OtherVariant(s.o, s.l) \/ OtherVariant(s.o, s.d)

C1_TypeMismatchReported ==
  (pc = "merged" /\ canDeepCopy(observed) /\ ~observed.nil /\ C1_MapOrListMismatch)
    => (result.err = "TypeMismatch" /\ result.val = Null)

(***************************************************************************)
(* C3: after a successful Merge, a key of an observed map that neither the *)
(* lastApplied map nor the desired map of the same path has is in the      *)
(* merged map with its observed value.                                     *)
(***************************************************************************)
C3_UnmanagedUntouched ==
  Merged => \A s \in Maps :
    /\ IsMap(s.m)
    /\ \A k \in DOMAIN s.o.v :
         (k \notin DOMAIN MapV(s.l) /\ k \notin DOMAIN MapV(s.d))
           => (k \in DOMAIN s.m.v /\ s.m.v[k] = s.o.v[k])

\* an observed-only key that survives a merge which changed a sibling
C3_Witness ==
  /\ Merged
  /\ \E s \in Maps : \E k \in DOMAIN s.o.v, j \in DOMAIN MapV(s.d) :
       /\ k \notin DOMAIN MapV(s.l) /\ k \notin DOMAIN MapV(s.d)
       /\ DOMAIN MapV(s.l) # {}
       /\ s.m.v[k] = s.o.v[k]
       /\ s.m.v[j] # Get(s.o.v, j)

(***************************************************************************)
(* C4: after a successful Merge, where observed, lastApplied and desired   *)
(* all hold maps, a key of the lastApplied map that the desired map lacks  *)
(* is not in the merged map.                                               *)
(***************************************************************************)
C4_DroppedKeysDeleted ==
  Merged => \A s \in Maps :
    (IsMap(s.l) /\ IsMap(s.d)) =>
      (IsMap(s.m) /\ \A k \in DOMAIN s.l.v : k \notin DOMAIN s.d.v => k \notin DOMAIN s.m.v)

\* observed has the key that lastApplied had and desired dropped
C4_Witness ==
  /\ Merged
  /\ \E s \in Maps : IsMap(s.l) /\ IsMap(s.d) /\ ~s.l.nil /\ ~s.d.nil
       /\ \E k \in DOMAIN s.l.v \cap DOMAIN s.o.v : k \notin DOMAIN s.d.v /\ k \notin DOMAIN s.m.v

(***************************************************************************)
(* C5: where observed and desired hold maps, for every key of the desired  *)
(* map at which observed holds a scalar, null or nothing, the merged value *)
(* is the desired value, whatever its variant.                             *)
(***************************************************************************)
C5_LeafTakesDesired ==
  Merged => \A s \in Maps :
    IsMap(s.d) =>
      (IsMap(s.m) /\ \A k \in DOMAIN s.d.v :
         (IsScalar(Get(s.o.v, k)) \/ IsNull(Get(s.o.v, k)))
           => (k \in DOMAIN s.m.v /\ s.m.v[k] = s.d.v[k]))

\* a scalar of observed is overwritten by a map or a list of desired
C5_Witness ==
  /\ Merged
  /\ \E s \in Maps : IsMap(s.d) /\ \E k \in DOMAIN s.d.v \cap DOMAIN s.o.v :
       /\ IsScalar(s.o.v[k])
       /\ (IsMap(s.d.v[k]) \/ IsList(s.d.v[k]))
       /\ s.m.v[k] = s.d.v[k]

(***************************************************************************)
(* C6: a list field for which merge-key detection over the observed,       *)
(* lastApplied and desired lists returns "" is merged to desired's list    *)
(* verbatim.                                                               *)
(***************************************************************************)
C6_ListReplaced ==
  Merged => \A s \in Lists :
    (IsList(s.d) /\ SiteKey(s) = "") => s.m = s.d

\* observed ["x","y"] and desired ["y"] merge to ["y"]
C6_Witness ==
  /\ Merged
  /\ \E s \in Lists :
       /\ s.o = List(<< Str("x"), Str("y") >>)
       /\ s.d = List(<< Str("y") >>)
       /\ s.m = List(<< Str("y") >>)

(***************************************************************************)
(* C7: when a merge key is detected for a list field, the merge-key values *)
(* of the merged list are those of observed, minus those that lastApplied  *)
(* has and desired has not, plus those of desired; and every element of    *)
(* the merged list is the map-merge of the elements with its key.          *)
(***************************************************************************)
\* the element of a list with the given key, an empty map if there is none
C7_Element(mergeKey, list, k) ==
  LET byKey == makeMapFromList(mergeKey, list) IN
  IF k \in DOMAIN byKey THEN byKey[k] ELSE EmptyMap

C7_KeyedListMerged ==
  Merged => \A s \in Lists :
    LET mergeKey == SiteKey(s)
        obs == KeySet(mergeKey, s.o.v)
        last == KeySet(mergeKey, ListV(s.l))
        des == KeySet(mergeKey, ListV(s.d))
    IN mergeKey # "" =>
         /\ IsList(s.m)
         /\ KeySet(mergeKey, s.m.v) = (obs \ (last \ des)) \cup des
         /\ \A i \in 1..Len(s.m.v) :
              LET k == KeySeq(mergeKey, s.m.v)[i] IN
              s.m.v[i] = mergeMapToObserved(C7_Element(mergeKey, s.o.v, k),
                                            C7_Element(mergeKey, ListV(s.l), k),
                                            C7_Element(mergeKey, ListV(s.d), k)).val

\* observed [a, b], lastApplied [a, b], desired [a']: b goes, a is merged
C7_Witness ==
  /\ Merged
  /\ \E s \in Lists :
       /\ SiteKey(s) = "name"
       /\ KeySeq("name", s.o.v) = << "a", "b" >>
       /\ KeySeq("name", ListV(s.l)) = << "a", "b" >>
       /\ KeySeq("name", ListV(s.d)) = << "a" >>
       /\ s.d.v[1] # s.o.v[1]
       /\ s.m = s.d

(***************************************************************************)
(* C8: in a list-of-maps merge the elements that were in observed keep     *)
(* their observed order, and the elements that desired introduces follow   *)
(* all of them, in desired's order.                                        *)
(***************************************************************************)
RECURSIVE C8_FirstOccurrences(_, _)
\* a sequence without the repetitions of a value already seen
C8_FirstOccurrences(seq, seen) ==
  IF seq = << >> THEN << >>
  ELSE IF Head(seq) \in seen THEN C8_FirstOccurrences(Tail(seq), seen)
  ELSE << Head(seq) >> \o C8_FirstOccurrences(Tail(seq), seen \cup {Head(seq)})

C21_Elements(s) == s.o.v \o ListV(s.l) \o ListV(s.d)

\* some elements are maps and some are not
C21_Mixed(s) ==
  /\ \E i \in 1..Len(C21_Elements(s)) : IsMap(C21_Elements(s)[i])
  /\ \E i \in 1..Len(C21_Elements(s)) : ~IsMap(C21_Elements(s)[i])

C21_MixedListAborts ==
  (/\ pc = "merged"
   /\ canDeepCopy(observed)
   /\ ~observed.nil
   /\ \E s \in ListSites(observed, lastApplied, desired, observed) : C21_Mixed(s))
    => (result.err = "UnsupportedType" /\ result.val = Null)

(***************************************************************************)
(* The null/empty stripper: DeleteNullInUnstructuredMap                    *)
(***************************************************************************)
\* a typed slice such as []string: a slice, but not a []interface{}
StringSlice(s) == [t |-> "[]string", nil |-> FALSE, v |-> s]
NilStringSlice == [t |-> "[]string", nil |-> TRUE, v |-> << >>]

\* reflect.Value.Kind of a document
Kind(x) ==
  CASE x.t = "map" -> "Map"
    [] x.t \in {"list", "[]string"} -> "Slice"
    [] x.t = "string" -> "String"
    [] x.t = "int64" -> "Int64"
    [] x.t = "float64" -> "Float64"
    [] x.t = "bool" -> "Bool"
    [] x.t = "int" -> "Int"

\* reflect.Zero of the value's type
Zero(x) ==
  CASE x.t = "string" -> Str("")
    [] x.t = "bool" -> Bool(FALSE)
    [] x.t = "int" -> PlainInt(0)

\* IsZero that takes a slice without elements for a zero value
IsZero_EmptySlice(x) ==
  CASE Kind(x) \in {"Float64", "Int64"} -> FALSE
    [] Kind(x) = "Map" -> x.nil
    [] Kind(x) = "Slice" -> x.nil \/ Len(x.v) = 0
    [] OTHER -> x = Zero(x)

\* IsZero: never for the two number kinds, nil-ness for maps and slices, and
\* equality with the zero value of the type for every other kind
IsZero(x) ==
  CASE Kind(x) \in {"Float64", "Int64"} -> FALSE
    [] Kind(x) \in {"Map", "Slice"} -> x.nil
    [] OTHER -> x = Zero(x)

RECURSIVE DeleteNullInUnstructuredMap(_)
RECURSIVE DeleteNullInUnstructuredSlice(_)

\* stripEntry with the emptied sub-map written to the key all the same
stripEntry_KeepEmptied(val) ==
  IF IsNull(val) \/ IsZero(val) THEN [act |-> "skip", err |-> "", val |-> Null]
  ELSE CASE val.t = "list" ->
              LET slice == DeleteNullInUnstructuredSlice(val) IN
              IF slice.err # "" THEN [act |-> "fail", err |-> slice.err, val |-> Null]
              ELSE [act |-> "keep", err |-> "", val |-> slice.val]
         [] val.t \in {"string", "float64", "bool", "int64"} -> [act |-> "keep", err |-> "", val |-> val]
         [] val.t = "map" ->
              IF DOMAIN val.v = {} THEN [act |-> "keep", err |-> "", val |-> val]
              ELSE LET filteredSubMap == DeleteNullInUnstructuredMap(val) IN
                   IF filteredSubMap.err # "" THEN [act |-> "fail", err |-> filteredSubMap.err, val |-> Null]
                   ELSE [act |-> "keep", err |-> "", val |-> filteredSubMap.val]
         [] OTHER -> [act |-> "fail", err |-> "UnsupportedType", val |-> Null]

\* stripEntry with the key of an emptied sub-map left in place, holding nil
stripEntry_EmptiedToNull(val) ==
  IF IsNull(val) \/ IsZero(val) THEN [act |-> "skip", err |-> "", val |-> Null]
  ELSE CASE val.t = "list" ->
              LET slice == DeleteNullInUnstructuredSlice(val) IN
              IF slice.err # "" THEN [act |-> "fail", err |-> slice.err, val |-> Null]
              ELSE [act |-> "keep", err |-> "", val |-> slice.val]
         [] val.t \in {"string", "float64", "bool", "int64"} -> [act |-> "keep", err |-> "", val |-> val]
         [] val.t = "map" ->
              IF DOMAIN val.v = {} THEN [act |-> "keep", err |-> "", val |-> val]
              ELSE LET filteredSubMap == DeleteNullInUnstructuredMap(val) IN
                   IF filteredSubMap.err # "" THEN [act |-> "fail", err |-> filteredSubMap.err, val |-> Null]
                   ELSE IF DOMAIN filteredSubMap.val.v # {}
                        THEN [act |-> "keep", err |-> "", val |-> filteredSubMap.val]
                        ELSE [act |-> "keep", err |-> "", val |-> Null]
         [] OTHER -> [act |-> "fail", err |-> "UnsupportedType", val |-> Null]

\* one entry of the map: "skip" (not copied), "keep" (copied as val) or an error
stripEntry(val) ==
  IF IsNull(val) \/ IsZero(val) THEN [act |-> "skip", err |-> "", val |-> Null]
  ELSE CASE val.t = "list" ->
              LET slice == DeleteNullInUnstructuredSlice(val) IN
              IF slice.err # "" THEN [act |-> "fail", err |-> slice.err, val |-> Null]
              ELSE [act |-> "keep", err |-> "", val |-> slice.val]
         [] val.t \in {"string", "float64", "bool", "int64"} -> [act |-> "keep", err |-> "", val |-> val]
         [] val.t = "map" ->
              IF DOMAIN val.v = {} THEN [act |-> "keep", err |-> "", val |-> val]
              ELSE LET filteredSubMap == DeleteNullInUnstructuredMap(val) IN
                   IF filteredSubMap.err # "" THEN [act |-> "fail", err |-> filteredSubMap.err, val |-> Null]
                   ELSE IF DOMAIN filteredSubMap.val.v # {}
                        THEN [act |-> "keep", err |-> "", val |-> filteredSubMap.val]
                        ELSE [act |-> "skip", err |-> "", val |-> Null]
         [] OTHER -> [act |-> "fail", err |-> "UnsupportedType", val |-> Null]

\* stripElement with the guard of the map loop: a zero element leaves its slot nil
stripElement_EmptyToNull(val) ==
  IF IsNull(val) \/ IsZero(val) THEN Ok(Null)
  ELSE CASE val.t = "list" -> DeleteNullInUnstructuredSlice(val)
         [] val.t \in {"string", "float64", "bool", "int64"} -> Ok(val)
         [] val.t = "map" -> DeleteNullInUnstructuredMap(val)
         [] OTHER -> Err("UnsupportedType")

\* one element of the slice: the element of the filtered slice or an error
stripElement(val) ==
  IF IsNull(val) THEN Ok(Null)
  ELSE CASE val.t = "list" -> DeleteNullInUnstructuredSlice(val)
         [] val.t \in {"string", "float64", "bool", "int64"} -> Ok(val)
         [] val.t = "map" -> DeleteNullInUnstructuredMap(val)
         [] OTHER -> Err("UnsupportedType")

\* m is a map document; the filtered map is always a fresh, non-nil map
DeleteNullInUnstructuredMap(m) ==
  LET entry == [key \in DOMAIN m.v |-> stripEntry(m.v[key])] IN
  IF \E key \in DOMAIN m.v : entry[key].act = "fail" THEN Err("UnsupportedType")
  ELSE Ok(Map([key \in {k \in DOMAIN m.v : entry[k].act = "keep"} |-> entry[key].val]))

\* m is a list document; the filtered slice has the length of m
DeleteNullInUnstructuredSlice(m) ==
  LET element == [idx \in 1..Len(m.v) |-> stripElement(m.v[idx])] IN
  IF \E idx \in 1..Len(m.v) : element[idx].err # "" THEN Err("UnsupportedType")
  ELSE Ok(List([idx \in 1..Len(m.v) |-> element[idx].val]))

(***************************************************************************)
(* The documents the stripper is exercised on: maps over the keys a and b  *)
(* whose values nest maps and lists down to StripDepth.                    *)
(***************************************************************************)
StripLeaves ==
  {Null, Str(""), Str("x"), Int64(0), Int64(1), Float64(0), Bool(FALSE), Bool(TRUE),
   PlainInt(0), PlainInt(7), EmptyMap, NilMap, List(<< >>), NilList,
   StringSlice(<< >>), NilStringSlice,
   List(<< Null, Str("") >>), List(<< Map("c" :> Null), Int64(0) >>)}

RECURSIVE StripValues(_)
StripValues(depth) ==
  IF depth = 0 THEN StripLeaves
  ELSE LET below == StripValues(depth - 1) IN
       StripLeaves \cup {Map("c" :> w) : w \in below} \cup {List(<< w >>) : w \in below}

StripDocs ==
  {Map(f) : f \in UNION {[K -> StripValues(StripDepth)] : K \in SUBSET {"a", "b"}}}

(***************************************************************************)
(* SpecStrip: the stripper is called on a document, and again on what it   *)
(* returned.                                                               *)
(***************************************************************************)
InitStrip ==
  /\ pc = "ready"
  /\ doc \in StripDocs
  /\ observed = NilMap /\ lastApplied = NilMap /\ desired = NilMap
  /\ lists = << >>
  /\ result = Idle
  /\ prev = Idle
  /\ round = 0
  /\ NoCluster
  /\ NoCallers

\* the caller invokes DeleteNullInUnstructuredMap(doc)
StripCall ==
  /\ pc = "ready"
  /\ round < MaxRounds
  /\ result' = DeleteNullInUnstructuredMap(doc)
  /\ prev' = result
  /\ round' = round + 1
  /\ pc' = "stripped"
  /\ UNCHANGED << cluster, given, baseRunOptions, callers, observed, lastApplied, desired, doc, lists >>

\* the caller takes the filtered map as its next document
StripResult ==
  /\ pc = "stripped"
  /\ result.err = ""
  /\ doc' = result.val
  /\ pc' = "ready"
  /\ UNCHANGED << cluster, given, baseRunOptions, callers, observed, lastApplied, desired, lists, result, prev, round >>

NextStrip == StripCall \/ StripResult

SpecStrip == InitStrip /\ [][NextStrip]_vars

(***************************************************************************)
(* C2: the stripper never removes a key whose value is the number zero     *)
(* (int64 0, float64 0.0) or the Bool false: at every map depth such a key *)
(* is in the output with its value.                                        *)
(* This is the claim as stated; the code drops the keys that hold false.   *)
(***************************************************************************)
C2_MeaningfulZero(x) == x \in {Int64(0), Float64(0), Bool(FALSE)}

RECURSIVE C2_HoldsZero(_)
\* some key below x, through maps, holds a meaningful zero
C2_HoldsZero(x) ==
  IsMap(x) /\ \E k \in DOMAIN x.v : C2_MeaningfulZero(x.v[k]) \/ C2_HoldsZero(x.v[k])

RECURSIVE C2_Kept(_, _)
C2_Kept(in, out) ==
  /\ IsMap(out)
  /\ \A k \in DOMAIN in.v :
       /\ C2_MeaningfulZero(in.v[k]) => (k \in DOMAIN out.v /\ out.v[k] = in.v[k])
       /\ C2_HoldsZero(in.v[k]) => (k \in DOMAIN out.v /\ C2_Kept(in.v[k], out.v[k]))

C2_ZeroAndFalseKept ==
  (pc = "stripped" /\ round = 1 /\ result.err = "") => C2_Kept(doc, result.val)

(***************************************************************************)
(* C11: the stripper drops every key whose value is Null or the empty      *)
(* String, keeps a key whose value is an empty Map as an empty Map, and    *)
(* keeps a key whose value is a non-empty Map only if the recursively      *)
(* stripped sub-map is non-empty, the key then holding that sub-map.       *)
(* C11_EmptyMapKept is the claim as stated, a nil map counting as an empty *)
(* Map; C11_KeyRule keeps the empty map that has storage and drops the nil *)
(* map.                                                                    *)
(***************************************************************************)
C11_DropsAndRecurses(in, out) ==
  \A k \in DOMAIN in.v :
    LET val == in.v[k] IN
    /\ (IsNull(val) \/ val = Str("")) => k \notin DOMAIN out.v
    /\ (IsMap(val) /\ DOMAIN val.v # {}) =>
         LET sub == DeleteNullInUnstructuredMap(val) IN
         /\ k \in DOMAIN out.v <=> DOMAIN sub.val.v # {}
         /\ k \in DOMAIN out.v => out.v[k] = sub.val

C11_EmptyMapKept ==
  (pc = "stripped" /\ round = 1 /\ result.err = "") =>
     /\ C11_DropsAndRecurses(doc, result.val)
     /\ \A k \in DOMAIN doc.v :
          (IsMap(doc.v[k]) /\ DOMAIN doc.v[k].v = {}) =>
             (k \in DOMAIN result.val.v /\ result.val.v[k] = EmptyMap)

C11_KeyRule ==
  (pc = "stripped" /\ round = 1 /\ result.err = "") =>
     /\ C11_DropsAndRecurses(doc, result.val)
     /\ \A k \in DOMAIN doc.v :
          /\ doc.v[k] = EmptyMap => (k \in DOMAIN result.val.v /\ result.val.v[k] = EmptyMap)
          /\ doc.v[k] = NilMap => k \notin DOMAIN result.val.v

\* one call dropped a null, kept an empty map and dropped a map that stripped to nothing
C11_Witness ==
  /\ pc = "stripped" /\ round = 1 /\ result.err = ""
  /\ doc = Map(("a" :> Map("c" :> Map("c" :> Null))) @@ ("b" :> Map("c" :> EmptyMap)))
  /\ result.val = Map("b" :> Map("c" :> EmptyMap))

(***************************************************************************)
(* C12: the stripper preserves every non-nil List value as-is: the output  *)
(* at the key equals the input list element for element, whatever its Map  *)
(* elements contain; only a nil list is dropped.                           *)
(* C12_ListAsIs is the claim as stated.  C12_ListPositionsKept is what the *)
(* code keeps: the length and the positions, every Null and scalar         *)
(* element unchanged, every List element a List kept by the same rule, and *)
(* every Map element a Map that has lost its Null and empty-String         *)
(* entries.                                                                *)
(***************************************************************************)
C12_ListAsIs ==
  (pc = "stripped" /\ round = 1 /\ result.err = "") =>
     \A k \in DOMAIN doc.v :
        /\ (IsList(doc.v[k]) /\ ~doc.v[k].nil) =>
              (k \in DOMAIN result.val.v /\ result.val.v[k] = doc.v[k])
        /\ (IsList(doc.v[k]) /\ doc.v[k].nil) => k \notin DOMAIN result.val.v

RECURSIVE C12_ListKept(_, _)
C12_ListKept(in, out) ==
  /\ IsList(out) /\ ~out.nil
  /\ Len(out.v) = Len(in.v)
  /\ \A i \in 1..Len(in.v) :
       LET e == in.v[i]
           r == out.v[i]
       IN /\ (IsNull(e) \/ IsScalar(e)) => r = e
          /\ IsList(e) => C12_ListKept(e, r)
          /\ IsMap(e) => /\ IsMap(r) /\ ~r.nil
                         /\ DOMAIN r.v \subseteq DOMAIN e.v
                         /\ \A f \in DOMAIN r.v : ~IsNull(r.v[f]) /\ r.v[f] # Str("")
                         /\ \A f \in DOMAIN e.v :
                              (IsScalar(e.v[f]) /\ ~IsZero(e.v[f])) =>
                                 (f \in DOMAIN r.v /\ r.v[f] = e.v[f])

C12_ListPositionsKept ==
  (pc = "stripped" /\ round = 1 /\ result.err = "") =>
     \A k \in DOMAIN doc.v :
        /\ (IsList(doc.v[k]) /\ ~doc.v[k].nil) =>
              (k \in DOMAIN result.val.v /\ C12_ListKept(doc.v[k], result.val.v[k]))
        /\ (IsList(doc.v[k]) /\ doc.v[k].nil) => k \notin DOMAIN result.val.v

\* a list holding a null and an empty string is kept, next to a list whose map element is emptied
C12_Witness ==
  /\ pc = "stripped" /\ round = 1 /\ result.err = ""
  /\ doc = Map(("a" :> List(<< Null, Str("") >>)) @@ ("b" :> List(<< Map("c" :> Null), Int64(0) >>)))
  /\ result.val = Map(("a" :> List(<< Null, Str("") >>)) @@ ("b" :> List(<< EmptyMap, Int64(0) >>)))

(***************************************************************************)
(* C13: if any value reachable through maps and lists has a variant        *)
(* outside {List, Map, String, int64, float64, Bool, Null}, whatever its   *)
(* numeric value, the stripper returns an UnsupportedType error and no     *)
(* map.                                                                    *)
(* This is the claim as stated; the code drops a plain integer zero and a  *)
(* nil typed slice before it looks at the variant.                         *)
(***************************************************************************)
RECURSIVE C13_HoldsUnsupported(_)
C13_HoldsUnsupported(x) ==
  CASE x.t = "map" -> \E k \in DOMAIN x.v : C13_HoldsUnsupported(x.v[k])
    [] x.t = "list" -> \E i \in 1..Len(x.v) : C13_HoldsUnsupported(x.v[i])
    [] x.t \in {"string", "int64", "float64", "bool", "null"} -> FALSE
    [] OTHER -> TRUE

C13_UnsupportedFailsFast ==
  (pc = "stripped" /\ round = 1 /\ C13_HoldsUnsupported(doc)) =>
     (result.err = "UnsupportedType" /\ result.val = Null)

(***************************************************************************)
(* C14: the stripper is a fixpoint after one application: when it succeeds *)
(* on a document, it succeeds on its own output and returns a map          *)
(* structurally equal to it.                                               *)
(***************************************************************************)
C14_Fixpoint ==
  (pc = "stripped" /\ round = 2) => (result.err = "" /\ result.val = prev.val /\ result.val = doc)

\* the second call is given a list whose map element the first call emptied
C14_Witness ==
  /\ pc = "stripped" /\ round = 2 /\ result.err = ""
  /\ prev.val = Map(("a" :> List(<< List(<< >>) >>)) @@ ("b" :> List(<< EmptyMap, Int64(0) >>)))
  /\ result = prev

(***************************************************************************)
(* SpecDetect: one call of detectListMapKey on three lists.                *)
(***************************************************************************)
\* the field names of the elements: the known merge keys and one other name
DetectFields ==
  {"uid", "id", "alias", "name", "key", "component", "containerPort", "container-port", "port", "ip", "image"}

\* an element with the given fields
DetectItem(K) == Map([k \in K |-> Str("a")])

\* the elements that are spread over the three lists
DetectItems == {DetectItem(K) : K \in SUBSET {"id", "name", "image"}} \cup {Str("x")}

\* a single element with any set of fields, in the first list
InitDetectOne ==
  \E K \in SUBSET DetectFields : lists = << << DetectItem(K) >>, << >>, << >> >>

\* up to MaxDetectItems elements, cut into three lists
InitDetectSpread ==
  \E s \in SeqsUpTo(DetectItems, MaxDetectItems) : \E i, j \in 0..Len(s) :
    /\ i <= j
    /\ lists = << SubSeq(s, 1, i), SubSeq(s, i + 1, j), SubSeq(s, j + 1, Len(s)) >>

InitDetect ==
  /\ pc = "ready"
  /\ (InitDetectOne \/ InitDetectSpread)
  /\ observed = NilMap /\ lastApplied = NilMap /\ desired = NilMap
  /\ doc = NilMap
  /\ result = Idle
  /\ prev = Idle
  /\ round = 0
  /\ NoCluster
  /\ NoCallers

\* the caller invokes detectListMapKey(lists...)
DetectCall ==
  /\ pc = "ready"
  /\ result' = Ok(Str(detectListMapKey(lists)))
  /\ pc' = "detected"
  /\ UNCHANGED << cluster, given, baseRunOptions, callers, observed, lastApplied, desired, doc, lists, prev, round >>

NextDetect == DetectCall

SpecDetect == InitDetect /\ [][NextDetect]_vars

(***************************************************************************)
(* C10: detectListMapKey returns "" if an element of a list is not a map   *)
(* or if all lists are empty; otherwise the first name, in the order uid,  *)
(* id, alias, name, key, component, containerPort, container-port, port,   *)
(* ip, that is a field of every element of every list, and "" if there is  *)
(* none.                                                                   *)
(***************************************************************************)
C10_Order == << "uid", "id", "alias", "name", "key", "component", "containerPort", "container-port", "port", "ip" >>

C10_Elements == UNION {Range(lists[n]) : n \in 1..Len(lists)}

C10_Expected ==
  IF C10_Elements = {} \/ \E e \in C10_Elements : ~IsMap(e) THEN ""
  ELSE LET common == {i \in 1..Len(C10_Order) : \A e \in C10_Elements : C10_Order[i] \in DOMAIN e.v} IN
       IF common = {} THEN ""
       ELSE C10_Order[CHOOSE i \in common : \A j \in common : i <= j]

C10_DetectedKey == pc = "detected" => result = Ok(Str(C10_Expected))

\* elements of two lists share name only, though one of them has id as well
C10_Witness ==
  /\ pc = "detected"
  /\ result = Ok(Str("name"))
  /\ lists[1] # << >> /\ lists[3] # << >>
  /\ \E e \in C10_Elements : "id" \in DOMAIN e.v
  /\ \E e \in C10_Elements : "image" \in DOMAIN e.v

(***************************************************************************)
(* SpecTwoObjects: the merge with desired standing in for lastApplied,     *)
(* applied again and again to its own result.                              *)
(***************************************************************************)
\* list elements whose id is shared, missing or a map
SharedIdItems ==
  {Map("name" :> Str("a")), Map(("id" :> Str("1")) @@ ("name" :> Str("a"))),
   Map(("id" :> Str("1")) @@ ("name" :> Str("b"))),
   Map(("id" :> Map("x" :> Str("1"))) @@ ("name" :> Str("b"))),
   Map(("id" :> Map(("x" :> Str("1")) @@ ("y" :> Str("1")))) @@ ("name" :> Str("b")))}

SharedIdLists == {List(s) : s \in SeqsUpTo(SharedIdItems, MaxOddLen)}

InitTwoObjects ==
  /\ pc = "ready"
  /\ \/ observed \in Field(MixedValues) \cup {EmptyMap} /\ desired \in Field(MixedValues) \cup {EmptyMap}
     \/ observed \in Field(NamedLists) /\ desired \in Field(NamedLists)
     \/ observed \in Field(SharedIdLists) /\ desired \in Field(SharedIdLists)
  /\ lastApplied = NilMap
  /\ doc = NilMap
  /\ lists = << >>
  /\ result = Idle
  /\ prev = Idle
  /\ round = 0
  /\ NoCluster
  /\ NoCallers

\* the caller invokes ThreeWayLocalMergeWithTwoObjects(observed, desired)
TwoObjectsCall ==
  /\ pc = "ready"
  /\ round < MaxRounds
  /\ result' = ThreeWayLocalMergeWithTwoObjects(observed, desired)
  /\ prev' = result
  /\ round' = round + 1
  /\ pc' = "merged"
  /\ UNCHANGED << cluster, given, baseRunOptions, callers, observed, lastApplied, desired, doc, lists >>

\* the merged document becomes the observed one of the next call
Reobserve ==
  /\ pc = "merged"
  /\ result.err = ""
  /\ observed' = result.val
  /\ pc' = "ready"
  /\ UNCHANGED << cluster, given, baseRunOptions, callers, lastApplied, desired, doc, lists, result, prev, round >>

NextTwoObjects == TwoObjectsCall \/ Reobserve

SpecTwoObjects == InitTwoObjects /\ [][NextTwoObjects]_vars

C9_KnownNames == {"uid", "id", "alias", "name", "key", "component", "containerPort", "container-port", "port", "ip"}

RECURSIVE C9_DistinctKeys(_)
\* no list below x holds two maps with the same stringified value of a known name
C9_DistinctKeys(x) ==
  CASE IsMap(x) -> \A k \in DOMAIN x.v : C9_DistinctKeys(x.v[k])
    [] IsList(x) ->
         /\ \A i \in 1..Len(x.v) : C9_DistinctKeys(x.v[i])
         /\ \A i, j \in 1..Len(x.v) : \A n \in C9_KnownNames :
              (i < j /\ IsMap(x.v[i]) /\ IsMap(x.v[j]) /\ n \in DOMAIN x.v[i].v /\ n \in DOMAIN x.v[j].v)
                => formatValue(x.v[i].v[n]) # formatValue(x.v[j].v[n])
    [] OTHER -> TRUE

RECURSIVE C9_ScalarKeys(_)
\* the known names of the list elements below x hold scalars or null
C9_ScalarKeys(x) ==
  CASE IsMap(x) -> \A k \in DOMAIN x.v : C9_ScalarKeys(x.v[k])
    [] IsList(x) ->
         /\ \A i \in 1..Len(x.v) : C9_ScalarKeys(x.v[i])
         /\ \A i \in 1..Len(x.v) : \A n \in C9_KnownNames :
              (IsMap(x.v[i]) /\ n \in DOMAIN x.v[i].v) => (IsScalar(x.v[i].v[n]) \/ IsNull(x.v[i].v[n]))
    [] OTHER -> TRUE

objectMetaSystemFields ==
  << "selfLink", "uid", "resourceVersion", "generation", "creationTimestamp",
     "deletionTimestamp", "managedFields" >>

\* m[k] = x on a map
Put(m, k, x) == Map([key \in DOMAIN m.v \cup {k} |-> IF key = k THEN x ELSE m.v[key]])
\* delete(m, k): a no-op on a nil map and on a missing key
Del(m, k) == IF m.nil THEN m ELSE Map([key \in DOMAIN m.v \ {k} |-> m.v[key]])

RECURSIVE NestedFieldNoCopy(_, _)
\* unstructured.NestedFieldNoCopy: val is the value the walk has come to and
\* fields the rest of the path
NestedFieldNoCopy(val, fields) ==
  IF fields = << >> THEN [val |-> val, found |-> TRUE, err |-> ""]
  ELSE IF IsNull(val) THEN [val |-> Null, found |-> FALSE, err |-> ""]
  ELSE IF IsMap(val)
       THEN IF Head(fields) \in DOMAIN val.v
            THEN NestedFieldNoCopy(val.v[Head(fields)], Tail(fields))
            ELSE [val |-> Null, found |-> FALSE, err |-> ""]
       ELSE [val |-> Null, found |-> FALSE, err |-> "accessor error"]

RECURSIVE setNestedFieldNoCopy(_, _, _)
\* the map m after the write and the error; a write to a nil map panics
setNestedFieldNoCopy(m, value, fields) ==
  LET field == Head(fields) IN
  IF Len(fields) = 1
  THEN IF m.nil THEN [err |-> "panic", val |-> m] ELSE Ok(Put(m, field, value))
  ELSE IF field \in DOMAIN m.v
       THEN IF IsMap(m.v[field])
            THEN LET sub == setNestedFieldNoCopy(m.v[field], value, Tail(fields)) IN
                 IF sub.err # "" THEN [err |-> sub.err, val |-> m]
                 ELSE Ok(Put(m, field, sub.val))
            ELSE [err |-> "not a map", val |-> m]
       ELSE IF m.nil THEN [err |-> "panic", val |-> m]
            ELSE LET sub == setNestedFieldNoCopy(EmptyMap, value, Tail(fields)) IN
                 IF sub.err # "" THEN [err |-> sub.err, val |-> m]
                 ELSE Ok(Put(m, field, sub.val))

\* unstructured.SetNestedField: the value is deep-copied, then written
SetNestedField(obj, value, fields) ==
  IF ~canDeepCopy(value) THEN [err |-> "panic", val |-> obj]
  ELSE setNestedFieldNoCopy(obj, DeepCopyJSONValue(value), fields)

RECURSIVE removeNested(_, _)
removeNested(m, fields) ==
  LET field == Head(fields) IN
  IF Len(fields) = 1 THEN Del(m, field)
  ELSE IF field \in DOMAIN m.v /\ IsMap(m.v[field])
       THEN Put(m, field, removeNested(m.v[field], Tail(fields)))
       ELSE m

\* a removal that prunes a parent it finds empty, looking before it deletes the leaf
RemoveNestedField_PruneBeforeDelete(obj, fields) ==
  LET field == Head(fields) IN
  IF Len(fields) = 1 THEN Del(obj, field)
  ELSE IF field \in DOMAIN obj.v /\ IsMap(obj.v[field])
       THEN IF DOMAIN obj.v[field].v = {} THEN Del(obj, field)
            ELSE Put(obj, field, removeNested(obj.v[field], Tail(fields)))
       ELSE obj

\* unstructured.RemoveNestedField: a no-op unless every parent is a map; the
\* parents stay
RemoveNestedField(obj, fields) == removeNested(obj, fields)

\* overrideField that takes a field src holds as null for a field src does not have
overrideField_NullUnset(dest, src, fieldPath) ==
  LET looked == NestedFieldNoCopy(src, fieldPath) IN
  IF looked.err # "" THEN [err |-> looked.err, val |-> dest]
  ELSE IF looked.found /\ ~IsNull(looked.val) THEN SetNestedField(dest, looked.val, fieldPath)
  ELSE Ok(RemoveNestedField(dest, fieldPath))

\* overrideField without the removal
overrideField_KeepUnset(dest, src, fieldPath) ==
  LET looked == NestedFieldNoCopy(src, fieldPath) IN
  IF looked.err # "" THEN [err |-> looked.err, val |-> dest]
  ELSE IF looked.found THEN SetNestedField(dest, looked.val, fieldPath)
  ELSE Ok(dest)

\* overrideField: the error and dest as the call leaves it
overrideField(dest, src, fieldPath) ==
  LET looked == NestedFieldNoCopy(src, fieldPath) IN
  IF looked.err # "" THEN [err |-> looked.err, val |-> dest]
  ELSE IF looked.found THEN SetNestedField(dest, looked.val, fieldPath)
  ELSE Ok(RemoveNestedField(dest, fieldPath))

RECURSIVE overrideFrom(_, _, _)
\* the loop after the field at index i: done is what overrideField returned,
\* and an error ends the loop
overrideNext(i, done, src) ==
  IF done.err # "" THEN done ELSE overrideFrom(i + 1, done.val, src)

\* the loop over objectMetaSystemFields from index i on
overrideFrom(i, dest, src) ==
  IF i > Len(objectMetaSystemFields) THEN Ok(dest)
  ELSE overrideNext(i, overrideField(dest, src, << "metadata", objectMetaSystemFields[i] >>), src)

\* the overlay left out
overrideObjectMetaSystemFields_Skipped(dest, src) == Ok(dest)

overrideObjectMetaSystemFields(dest, src) == overrideFrom(1, dest, src)

(***************************************************************************)
(* The objects the overlay is exercised on: a kind and, or not, a metadata *)
(* that is a map over one caller field and three system fields, or that is *)
(* not a map at all.                                                       *)
(***************************************************************************)
MetaValues ==
  [name |-> {Str("n")},
   uid |-> {Str("u"), Null},
   generation |-> {Int64(0), Int64(2), PlainInt(1)},
   managedFields |-> {List(<< >>), List(<< Map("manager" :> Str("m")) >>)}]

MetaMaps ==
  {Map(f) : f \in UNION {{g \in [K -> UNION {MetaValues[k] : k \in K}] :
                             \A k \in K : g[k] \in MetaValues[k]} :
                         K \in SUBSET DOMAIN MetaValues}}

OverlayObjects ==
  {Map("kind" :> Str("K"))}
    \cup {Map(("kind" :> Str("K")) @@ ("metadata" :> m)) : m \in MetaMaps \cup {Null, Str("m"), NilMap}}

(***************************************************************************)
(* SpecOverlay: the overlay is applied to dest, in place, and applied      *)
(* again.  doc is dest, observed is src, and desired keeps dest as it was  *)
(* given to the first call.                                                *)
(***************************************************************************)
InitOverlay ==
  /\ pc = "ready"
  /\ doc \in OverlayObjects
  /\ observed \in OverlayObjects
  /\ desired = doc
  /\ lastApplied = NilMap
  /\ lists = << >>
  /\ result = Idle
  /\ prev = Idle
  /\ round = 0
  /\ NoCluster
  /\ NoCallers

\* the caller invokes overrideObjectMetaSystemFields(dest, src)
OverlayCall ==
  /\ pc \in {"ready", "overlaid"}
  /\ round < MaxRounds
  /\ result' = overrideObjectMetaSystemFields(doc, observed)
  /\ doc' = result'.val
  /\ prev' = result
  /\ round' = round + 1
  /\ pc' = "overlaid"
  /\ UNCHANGED << cluster, given, baseRunOptions, callers, observed, lastApplied, desired, lists >>

NextOverlay == OverlayCall

SpecOverlay == InitOverlay /\ [][NextOverlay]_vars

\* x.metadata, the nil interface when x has none
Meta(x) == Get(x.v, "metadata")

\* x.metadata is a map that has the field
HasMeta(x, field) ==
  /\ "metadata" \in DOMAIN x.v
  /\ IsMap(x.v["metadata"])
  /\ field \in DOMAIN x.v["metadata"].v

SystemFields == Range(objectMetaSystemFields)

(***************************************************************************)
(* C15: after overrideObjectMetaSystemFields(dest, src) succeeds, every    *)
(* system field that is structurally present under src.metadata, a null or *)
(* zero value included, is in dest.metadata with exactly src's value, the  *)
(* metadata map being created in dest if it was missing.                   *)
(***************************************************************************)
C15_SystemFieldsCopied ==
  (pc = "overlaid" /\ result.err = "") =>
     \A field \in SystemFields :
        HasMeta(observed, field) =>
           /\ HasMeta(doc, field)
           /\ doc.v["metadata"].v[field] = observed.v["metadata"].v[field]

\* dest had no metadata, src holds a null uid and a zero generation
C15_Witness ==
  /\ pc = "overlaid" /\ round = 1 /\ result.err = ""
  /\ "metadata" \notin DOMAIN desired.v
  /\ Meta(observed) = Map(("generation" :> Int64(0)) @@ ("uid" :> Null))
  /\ Meta(doc) = Map(("generation" :> Int64(0)) @@ ("uid" :> Null))

(***************************************************************************)
(* C16: after overrideObjectMetaSystemFields(dest, src), for each system   *)
(* field that src.metadata does not have, dest.metadata does not have that *)
(* field either, and if removing it leaves dest's metadata map empty then  *)
(* the metadata key itself is absent from dest.                            *)
(* C16_UnsetAndPruned is the claim as stated.  C16_UnsetParentStays is     *)
(* what the code does when it returns no error: the field is gone and the  *)
(* metadata map stays, empty or not.                                       *)
(***************************************************************************)
C16_UnsetAndPruned ==
  (pc = "overlaid" /\ round = 1) =>
     \A field \in SystemFields :
        ~HasMeta(observed, field) =>
           /\ ~HasMeta(doc, field)
           /\ HasMeta(desired, field) => Meta(doc) # EmptyMap

C16_UnsetParentStays ==
  (pc = "overlaid" /\ round = 1 /\ result.err = "") =>
     \A field \in SystemFields :
        ~HasMeta(observed, field) =>
           /\ ~HasMeta(doc, field)
           /\ HasMeta(desired, field) =>
                 ("metadata" \in DOMAIN doc.v /\ IsMap(doc.v["metadata"]))

\* the only field of dest's metadata is removed and the empty metadata map is left
C16_Witness ==
  /\ pc = "overlaid" /\ round = 1 /\ result.err = ""
  /\ Meta(desired) = Map("uid" :> Str("u"))
  /\ "metadata" \notin DOMAIN observed.v
  /\ Meta(doc) = EmptyMap

(***************************************************************************)
(* C17: the overlay is idempotent: applying it to dest a second time with  *)
(* the same src leaves dest as the first application left it.              *)
(***************************************************************************)
C17_OverlayIdempotent ==
  (pc = "overlaid" /\ round = 2) => (result.val = prev.val /\ result.err = prev.err)

\* the first application changed dest, the second did not
C17_Witness ==
  /\ pc = "overlaid" /\ round = 2 /\ result.err = ""
  /\ Meta(desired) = Map("managedFields" :> List(<< >>))
  /\ Meta(observed) = Map(("name" :> Str("n")) @@ ("uid" :> Str("u")))
  /\ Meta(doc) = Map("uid" :> Str("u"))
  /\ result = prev

(***************************************************************************)
(* The comparator: ToComparableObjects, IsEqualWithMergeOutput, IsEqual.   *)
(* An object is given as the document its Unstructured form holds.         *)
(***************************************************************************)
\* DefaultUnstructuredConverter.ToUnstructured(obj.DeepCopyObject()) of an
\* Unstructured: a deep copy of its content
ToUnstructured(obj) ==
  IF ~canDeepCopy(obj) THEN Err("panic") ELSE Ok(DeepCopyJSONValue(obj))

RECURSIVE jsonValue(_)
\* a value written as JSON and read back: a nil map or slice is null, a
\* typed slice a list, and a number without a fraction an int64 (every
\* float64 of this model is a whole number)
jsonValue(x) ==
  CASE x.t = "map" -> IF x.nil THEN Null ELSE Map([k \in DOMAIN x.v |-> jsonValue(x.v[k])])
    [] x.t = "list" -> IF x.nil THEN Null ELSE List([i \in 1..Len(x.v) |-> jsonValue(x.v[i])])
    [] x.t = "[]string" -> IF x.nil THEN Null ELSE List([i \in 1..Len(x.v) |-> Str(x.v[i])])
    [] x.t \in {"float64", "int"} -> Int64(x.v)
    [] OTHER -> x

\* unstructured.NestedString at a top-level field: "" unless a string is there
NestedString(obj, field) ==
  LET looked == NestedFieldNoCopy(obj, << field >>) IN
  IF looked.found /\ looked.err = "" /\ looked.val.t = "string" THEN looked.val.v ELSE ""

GetKind(obj) == NestedString(obj, "kind")
GetAPIVersion(obj) == NestedString(obj, "apiVersion")

\* DefaultUnstructuredConverter.FromUnstructured into an Unstructured: the
\* map goes through JSON, and an object without a kind is refused
FromUnstructured(u) ==
  LET object == jsonValue(u) IN
  IF GetKind(object) = "" THEN Err("missing kind") ELSE Ok(object)

\* the return of ToComparableObjects on an error
comparableFailed(e) == [err |-> e, observedObj |-> Null, mergedObj |-> Null]

\* ToComparableObjects from the overlay on; the error of the overlay is dropped
comparableOverlaid(mergedObj, observedObj) ==
  IF observedObj.err # "" THEN comparableFailed(observedObj.err)
  ELSE [err |-> "", observedObj |-> observedObj.val,
        mergedObj |-> overrideObjectMetaSystemFields(mergedObj, observedObj.val).val]

\* ToComparableObjects from the back-patch of kind and apiVersion on
comparablePatched(observedUnstruct, mergedObj) ==
  IF mergedObj.err # "" THEN comparableFailed(mergedObj.err)
  ELSE comparableOverlaid(mergedObj.val,
         FromUnstructured(Put(Put(observedUnstruct, "kind", Str(GetKind(mergedObj.val))),
                              "apiVersion", Str(GetAPIVersion(mergedObj.val)))))

\* ToComparableObjects from the conversion of the merged map on
comparableMerged(observedUnstruct, mergedUnstruct) ==
  IF mergedUnstruct.err # "" THEN comparableFailed(mergedUnstruct.err)
  ELSE comparablePatched(observedUnstruct, FromUnstructured(mergedUnstruct.val))

\* ToComparableObjects from the merge on
comparableStripped(observedUnstruct, desiredUnstruct) ==
  IF desiredUnstruct.err # "" THEN comparableFailed(desiredUnstruct.err)
  ELSE comparableMerged(observedUnstruct,
                        ThreeWayLocalMergeWithTwoObjects(observedUnstruct, desiredUnstruct.val))

\* ToComparableObjects from the stripping of desired on
comparableConverted(observedUnstruct, desiredUnstruct) ==
  IF observedUnstruct.err # "" THEN comparableFailed(observedUnstruct.err)
  ELSE IF desiredUnstruct.err # "" THEN comparableFailed(desiredUnstruct.err)
  ELSE comparableStripped(observedUnstruct.val, DeleteNullInUnstructuredMap(desiredUnstruct.val))

\* ToComparableObjects: the error, the observed object and the merged object
ToComparableObjects(observedObject, desiredObject) ==
  comparableConverted(ToUnstructured(observedObject), ToUnstructured(desiredObject))

RECURSIVE DeepEqual(_, _)
\* equality.Semantic.DeepEqual: the same dynamic type and the same content,
\* a nil and an empty map or slice being equal
DeepEqual(a, b) ==
  IF a.t # b.t THEN FALSE
  ELSE CASE a.t = "map" ->
              DOMAIN a.v = DOMAIN b.v /\ \A k \in DOMAIN a.v : DeepEqual(a.v[k], b.v[k])
         [] a.t = "list" ->
              Len(a.v) = Len(b.v) /\ \A i \in 1..Len(a.v) : DeepEqual(a.v[i], b.v[i])
         [] OTHER -> a = b

\* IsEqualWithMergeOutput: the verdict, the merged object and the error
IsEqualWithMergeOutput(observedObject, desiredObject) ==
  LET objs == ToComparableObjects(observedObject, desiredObject) IN
  IF objs.err # "" THEN [err |-> objs.err, val |-> FALSE, merged |-> Null]
  ELSE [err |-> "", val |-> DeepEqual(objs.observedObj, objs.mergedObj), merged |-> objs.mergedObj]

\* IsEqual: the verdict and the error
IsEqual(observedObject, desiredObject) ==
  LET out == IsEqualWithMergeOutput(observedObject, desiredObject) IN
  IF out.err # "" THEN [err |-> out.err, val |-> FALSE] ELSE [err |-> "", val |-> out.val]

(***************************************************************************)
(* The objects the comparator is exercised on: with or without kind and    *)
(* apiVersion, with or without a metadata, and with or without a field f.  *)
(***************************************************************************)
EqualTypeMetas ==
  {<< >>, "kind" :> Str("K"), ("kind" :> Str("K")) @@ ("apiVersion" :> Str("v1"))}

EqualMetas ==
  {EmptyMap, Map("name" :> Str("n")), Map(("name" :> Str("n")) @@ ("uid" :> Str("u"))),
   Map("uid" :> Str("x")), Map("uid" :> Str("")),
   Map(("name" :> Str("n")) @@ ("resourceVersion" :> Str("123")))}

EqualItems ==
  << Map(("name" :> Str("a")) @@ ("v" :> Int64(1))), Map(("name" :> Str("a")) @@ ("v" :> Int64(2))),
     Map(("name" :> Str("b")) @@ ("v" :> Int64(1))) >>

EqualFields ==
  {Null, Bool(FALSE), Bool(TRUE), Str("x"), Int64(0), Int64(1), Float64(1),
   Map("c" :> Str("x")), Map(("c" :> Str("x")) @@ ("d" :> Bool(FALSE))),
   List(<< Str("x") >>),
   List(<< Map("k" :> Int64(1)) >>), List(<< Map(("k" :> Int64(1)) @@ ("z" :> Int64(2))) >>)}
    \cup {List(s) : s \in {<< EqualItems[1] >>, << EqualItems[1], EqualItems[2] >>,
                          << EqualItems[1], EqualItems[3] >>, << EqualItems[3] >>}}

\* the top-level maps: one choice of type meta, of metadata and of f
EqualObjectsOver(metas, fields) ==
  {Map(tm @@ md @@ fd) :
     tm \in EqualTypeMetas,
     md \in {<< >>} \cup {"metadata" :> m : m \in metas},
     fd \in {<< >>} \cup {"f" :> w : w \in fields}}

EqualObjects == EqualObjectsOver(EqualMetas, EqualFields)

(***************************************************************************)
(* SpecEqual: one call of IsEqual on an observed and a desired object.     *)
(***************************************************************************)
InitEqual ==
  /\ pc = "ready"
  /\ observed \in EqualObjects
  /\ desired \in EqualObjects
  /\ lastApplied = NilMap
  /\ doc = NilMap
  /\ lists = << >>
  /\ result = Idle
  /\ prev = Idle
  /\ round = 0
  /\ NoCluster
  /\ NoCallers

\* the caller invokes IsEqual(observed, desired)
IsEqualCall ==
  /\ pc = "ready"
  /\ result' = IsEqual(observed, desired)
  /\ prev' = result
  /\ pc' = "compared"
  /\ UNCHANGED << cluster, given, baseRunOptions, callers, observed, lastApplied, desired, doc, lists, round >>

NextEqual == IsEqualCall

SpecEqual == InitEqual /\ [][NextEqual]_vars

(***************************************************************************)
(* C18: IsEqual(observed, desired) returns true for every observed and     *)
(* every desired whose fields are a subset of observed's (every field of   *)
(* desired is in observed with an equal value, recursively through maps    *)
(* and through list-of-maps elements), the case where desired is           *)
(* structurally equal to observed included.                                *)
(* This is the claim as stated, read for the objects that carry a kind and *)
(* an apiVersion and for the lists of maps whose elements are matched by   *)
(* their name; the code returns false for an object compared with itself   *)
(* when a list of it holds two maps with the same name.                    *)
(***************************************************************************)
RECURSIVE C18_FieldSubset(_, _)
C18_FieldSubset(d, o) ==
  \/ d = o
  \/ /\ IsMap(d) /\ IsMap(o)
     /\ \A k \in DOMAIN d.v : k \in DOMAIN o.v /\ C18_FieldSubset(d.v[k], o.v[k])
  \/ /\ IsList(d) /\ IsList(o)
     /\ \A i \in 1..Len(d.v) : IsMap(d.v[i]) /\ "name" \in DOMAIN d.v[i].v
     /\ \A j \in 1..Len(o.v) : IsMap(o.v[j]) /\ "name" \in DOMAIN o.v[j].v
     /\ \A i \in 1..Len(d.v) :
          \E j \in 1..Len(o.v) :
             o.v[j].v["name"] = d.v[i].v["name"] /\ C18_FieldSubset(d.v[i], o.v[j])

C18_SubsetIsEqual ==
  (/\ pc = "compared"
   /\ GetKind(desired) # "" /\ GetAPIVersion(desired) # ""
   /\ C18_FieldSubset(desired, observed))
     => (result.err = "" /\ result.val = TRUE)

(***************************************************************************)
(* C19: IsEqual(observed, desired) returns false whenever desired holds,   *)
(* outside the seven metadata system fields, a non-null value other than   *)
(* the empty string (a string, a number, either Bool value, a list element *)
(* or a map entry) at a path where observed has no value or a different    *)
(* value.                                                                  *)
(* This is the claim as stated, read for the scalar values under maps and  *)
(* in lists, kind and apiVersion left aside and a number being the same    *)
(* value whichever way it is written; the code returns true when the value *)
(* is the Bool false.                                                      *)
(***************************************************************************)
C19_Counts(x) == IsScalar(x) /\ x # Str("")

C19_Skipped(level) ==
  CASE level = "top" -> {"kind", "apiVersion"}
    [] level = "metadata" -> SystemFields
    [] OTHER -> {}

C19_Below(level, k) == IF level = "top" /\ k = "metadata" THEN "metadata" ELSE "below"

RECURSIVE C19_HoldsOther(_, _, _)
\* d holds a value that counts at a path where o has none or another one
C19_HoldsOther(d, o, level) ==
  \E k \in DOMAIN d.v \ C19_Skipped(level) :
     LET x == d.v[k]
         y == Get(o.v, k)
     IN \/ C19_Counts(x) /\ jsonValue(x) # jsonValue(y)
        \/ IsMap(x) /\ IsMap(y) /\ C19_HoldsOther(x, y, C19_Below(level, k))
        \/ IsMap(x) /\ IsNull(y) /\ k \notin DOMAIN o.v /\ C19_HoldsOther(x, EmptyMap, C19_Below(level, k))
        \/ IsList(x) /\ \E i \in 1..Len(x.v) :
              C19_Counts(x.v[i]) /\ (~IsList(y) \/ i > Len(y.v) \/ jsonValue(y.v[i]) # jsonValue(x.v[i]))

C19_DifferenceIsUnequal ==
  (pc = "compared" /\ C19_HoldsOther(desired, observed, "top")) => result.val = FALSE

(***************************************************************************)
(* SpecVariants: IsEqual is called on observed and desired, then on        *)
(* observed and doc, a desired object that differs from desired in the     *)
(* system fields of its metadata only.                                     *)
(***************************************************************************)
VariantFields == {Bool(TRUE), Str("x"), List(<< EqualItems[1] >>)}

VariantObserved == EqualObjectsOver(EqualMetas \cup {Null, NilMap}, VariantFields)

\* the map without the keys of drop
Without(m, drop) == Map([k \in DOMAIN m.v \ drop |-> m.v[k]])

\* the metadata maps that are md but for the system fields
SysVariants(md) == {m \in EqualMetas : Without(m, SystemFields) = Without(md, SystemFields)}

InitVariants ==
  /\ pc = "ready"
  /\ observed \in VariantObserved
  /\ \E tm \in EqualTypeMetas, fd \in {<< >>} \cup {"f" :> w : w \in VariantFields}, md \in EqualMetas :
        /\ desired = Map(tm @@ ("metadata" :> md) @@ fd)
        /\ \E other \in SysVariants(md) : doc = Map(tm @@ ("metadata" :> other) @@ fd)
  /\ lastApplied = NilMap
  /\ lists = << >>
  /\ result = Idle
  /\ prev = Idle
  /\ round = 0
  /\ NoCluster
  /\ NoCallers

\* the caller invokes IsEqual(observed, desired), then IsEqual(observed, doc)
VariantCall ==
  /\ pc \in {"ready", "compared"}
  /\ result' = IsEqual(observed, IF pc = "ready" THEN desired ELSE doc)
  /\ prev' = result
  /\ pc' = IF pc = "ready" THEN "compared" ELSE "recompared"
  /\ UNCHANGED << cluster, given, baseRunOptions, callers, observed, lastApplied, desired, doc, lists, round >>

NextVariants == VariantCall

SpecVariants == InitVariants /\ [][NextVariants]_vars

C20_ResourceVersionOnly ==
  (/\ pc = "compared"
   /\ GetKind(desired) # "" /\ GetAPIVersion(desired) # ""
   /\ HasMeta(observed, "resourceVersion")
   /\ observed = Put(desired, "metadata", Put(Meta(desired), "resourceVersion", Meta(observed).v["resourceVersion"])))
     => (result.err = "" /\ result.val = TRUE)

Ref(a) == [t |-> "ref", a |-> a]
IsRef(x) == x.t = "ref"

\* make(...) or a composite literal: a fresh node at the end of the heap
alloc(h, node) == [h |-> Append(h, node), val |-> Ref(Len(h) + 1), err |-> ""]

\* the variant of a value that is held by reference or by value
TypeOf(h, x) == IF IsRef(x) THEN h[x.a].t ELSE x.t
\* the entries of a map or the elements of a slice: none for a nil one
NodeV(h, x) == IF IsRef(x) THEN h[x.a].v ELSE << >>
\* observed[key] = value
assign(h, o, key, value) == [h EXCEPT ![o.a].v = [k \in DOMAIN @ \cup {key} |-> IF k = key THEN value ELSE @[k]]]

RECURSIVE SetToSeq(_)
\* the order in which a range loop visits the keys of a map
SetToSeq(S) ==
  IF S = {} THEN << >>
  ELSE LET x == CHOOSE y \in S : TRUE IN << x >> \o SetToSeq(S \ {x})

RECURSIVE load(_, _)
\* the document that a reference stands for
load(h, r) ==
  IF ~IsRef(r) THEN r
  ELSE IF h[r.a].t = "map" THEN Map([k \in DOMAIN h[r.a].v |-> load(h, h[r.a].v[k])])
  ELSE List([i \in 1..Len(h[r.a].v) |-> load(h, h[r.a].v[i])])

RECURSIVE store(_, _)
RECURSIVE storeAll(_, _, _)
\* the values xs stored one after the other: rs collects their references
storeAll(h, xs, rs) ==
  IF xs = << >> THEN [h |-> h, rs |-> rs]
  ELSE storeAll(store(h, Head(xs)).h, Tail(xs), Append(rs, store(h, Head(xs)).val))

\* a document built in memory: one node for each non-nil map and slice
store(h, x) ==
  IF (IsMap(x) \/ IsList(x)) /\ ~x.nil
  THEN LET keys == IF IsMap(x) THEN SetToSeq(DOMAIN x.v) ELSE [i \in 1..Len(x.v) |-> i]
           below == storeAll(h, [i \in 1..Len(keys) |-> x.v[keys[i]]], << >>)
       IN IF IsMap(x)
          THEN alloc(below.h, [t |-> "map", v |-> [k \in DOMAIN x.v |-> below.rs[CHOOSE i \in 1..Len(keys) : keys[i] = k]]])
          ELSE alloc(below.h, [t |-> "list", v |-> below.rs])
  ELSE [h |-> h, val |-> x, err |-> ""]

\* a result that carries the heap along
Done(h, val) == [h |-> h, val |-> val, err |-> ""]
Failed(h, e) == [h |-> h, val |-> Null, err |-> e]

\* makeMapFromList on references: the fresh map holds the items themselves
makeMapFromListInPlace(h, mergeKey, list) ==
  LET items == NodeV(h, list)
      keyOf(i) == stringMergeKey(load(h, Get(NodeV(h, items[i]), mergeKey)))
      last(k) == CHOOSE i \in 1..Len(items) : keyOf(i) = k /\ \A j \in 1..Len(items) : keyOf(j) = k => j <= i
  IN alloc(h, [t |-> "map", v |-> [k \in {keyOf(i) : i \in 1..Len(items)} |-> items[last(k)]]])

\* what detectListMapKey looks at: whether an item is a map, and its keys
shallow(h, x) == IF IsRef(x) THEN [t |-> h[x.a].t, nil |-> FALSE, v |-> h[x.a].v] ELSE x
shallowList(h, list) == [i \in 1..Len(NodeV(h, list)) |-> shallow(h, NodeV(h, list)[i])]

\* the stringified merge keys of the items of a list, read from the heap
keysInPlace(h, mergeKey, list) ==
  [i \in 1..Len(NodeV(h, list)) |-> stringMergeKey(load(h, Get(NodeV(h, NodeV(h, list)[i]), mergeKey)))]

RECURSIVE mergeToObservedInPlace(_, _, _, _)
RECURSIVE mergeMapToObservedInPlace(_, _, _, _)
RECURSIVE mergeKeysInPlace(_, _, _, _, _)
RECURSIVE mergeArrayToObservedInPlace(_, _, _, _)
RECURSIVE mergeListMapToObservedInPlace(_, _, _, _, _)

\* the result of a type assertion that failed is the nil map or nil slice
mergeToObservedInPlace(h, o, l, d) ==
  IF TypeOf(h, o) = "map"
  THEN mergeMapToObservedInPlace(h, o, IF TypeOf(h, l) = "map" THEN l ELSE NilMap,
                                       IF TypeOf(h, d) = "map" THEN d ELSE NilMap)
  ELSE IF TypeOf(h, o) = "list"
  THEN mergeArrayToObservedInPlace(h, o, IF TypeOf(h, l) = "list" THEN l ELSE NilList,
                                         IF TypeOf(h, d) = "list" THEN d ELSE NilList)
  ELSE Done(h, d)

\* the loop `for key, desiredVal := range desired` over the keys still to visit
mergeKeysInPlace(h, o, l, d, keys) ==
  IF keys = << >> THEN Done(h, o)
  ELSE LET sub == mergeToObservedInPlace(h, Get(NodeV(h, o), Head(keys)), Get(NodeV(h, l), Head(keys)), NodeV(h, d)[Head(keys)])
       IN IF sub.err = "panic" THEN sub
          \* assignment to an entry of a nil map
          ELSE IF ~IsRef(o) THEN Failed(sub.h, "panic")
          ELSE IF sub.err # "" THEN Failed(assign(sub.h, o, Head(keys), Null), sub.err)
          ELSE mergeKeysInPlace(assign(sub.h, o, Head(keys), sub.val), o, l, d, Tail(keys))

\* delete(observed, key) for the keys of lastApplied that desired lacks, then
\* the loop over desired: both write to the map that observed refers to
mergeMapToObservedInPlace(h, o, l, d) ==
  IF IsRef(o)
  THEN mergeKeysInPlace([h EXCEPT ![o.a].v = deletionPass(@, NodeV(h, l), NodeV(h, d))], o, l, d, SetToSeq(DOMAIN NodeV(h, d)))
  ELSE mergeKeysInPlace(h, o, l, d, SetToSeq(DOMAIN NodeV(h, d)))

mergeArrayToObservedInPlace(h, o, l, d) ==
  LET mergeKey == detectListMapKey(<< shallowList(h, o), shallowList(h, l), shallowList(h, d) >>) IN
  IF mergeKey # "" THEN mergeListMapToObservedInPlace(h, mergeKey, o, l, d)
  ELSE Done(h, d)

\* the list that the two loops over observed and desired build from the merged map
orderedListInPlace(h, mergeKey, o, d, observedMap) ==
  LET merged == NodeV(h, observedMap)
      kept == SelectSeq(keysInPlace(h, mergeKey, o), LAMBDA k : k \in DOMAIN merged)
  IN alloc(h, [t |-> "list",
               v |-> appendDesired(keysInPlace(h, mergeKey, d), merged, Range(kept),
                                   [i \in 1..Len(kept) |-> merged[kept[i]]])])

\* the merge of the three fresh maps, given the heap that holds them
mergeFreshMaps(h, mergeKey, o, d, observedMap, lastAppliedMap, desiredMap) ==
  LET merged == mergeMapToObservedInPlace(h, observedMap, lastAppliedMap, desiredMap) IN
  IF merged.err # "" THEN merged
  ELSE orderedListInPlace(merged.h, mergeKey, o, d, observedMap)

mergeListMapToObservedInPlace(h, mergeKey, o, l, d) ==
  LET observedMap == makeMapFromListInPlace(h, mergeKey, o)
      lastAppliedMap == makeMapFromListInPlace(observedMap.h, mergeKey, l)
      desiredMap == makeMapFromListInPlace(lastAppliedMap.h, mergeKey, d)
  IN mergeFreshMaps(desiredMap.h, mergeKey, o, d, observedMap.val, lastAppliedMap.val, desiredMap.val)

\* mutant of DeepCopyJSONInPlace: observed itself is the destination
DeepCopyJSONInPlace_Shared(h, o) == Done(h, o)

\* runtime.DeepCopyJSON: fresh nodes all the way down; a nil map stays nil
DeepCopyJSONInPlace(h, o) == store(h, load(h, o))

\* the merge proper, on the copy
mergeCopy(copy, l, d) ==
  LET res == mergeToObservedInPlace(copy.h, copy.val, l, d) IN
  IF res.err # "" THEN Failed(res.h, res.err) ELSE Done(res.h, copy.val)

\* Merge on references: the heap after the call, the merged map and the error
MergeInPlace(h, o, l, d) ==
  IF ~canDeepCopy(load(h, o)) THEN Failed(h, "panic")
  ELSE mergeCopy(DeepCopyJSONInPlace(h, o), l, d)

RECURSIVE DeleteNullInUnstructuredMapInPlace(_, _)
RECURSIVE DeleteNullInUnstructuredSliceInPlace(_, _)
RECURSIVE stripKeysInPlace(_, _, _, _)
RECURSIVE stripItemsInPlace(_, _, _, _)

\* the loop over the entries of m still to visit: the only map written to is
\* filteredMap
stripKeysInPlace(h, m, filteredMap, keys) ==
  IF keys = << >> THEN Done(h, filteredMap)
  ELSE LET val == NodeV(h, m)[Head(keys)] IN
       IF ~IsRef(val)
       THEN IF IsNull(val) \/ IsZero(val) THEN stripKeysInPlace(h, m, filteredMap, Tail(keys))
            ELSE IF val.t \in {"string", "float64", "bool", "int64"}
                 THEN stripKeysInPlace(assign(h, filteredMap, Head(keys), val), m, filteredMap, Tail(keys))
                 ELSE Failed(h, "UnsupportedType")
       ELSE IF TypeOf(h, val) = "list"
       THEN LET slice == DeleteNullInUnstructuredSliceInPlace(h, val) IN
            IF slice.err # "" THEN slice
            ELSE stripKeysInPlace(assign(slice.h, filteredMap, Head(keys), slice.val), m, filteredMap, Tail(keys))
       ELSE IF DOMAIN NodeV(h, val) = {}
       THEN stripKeysInPlace(assign(h, filteredMap, Head(keys), val), m, filteredMap, Tail(keys))
       ELSE LET filteredSubMap == DeleteNullInUnstructuredMapInPlace(h, val) IN
            IF filteredSubMap.err # "" THEN filteredSubMap
            ELSE IF DOMAIN NodeV(filteredSubMap.h, filteredSubMap.val) # {}
                 THEN stripKeysInPlace(assign(filteredSubMap.h, filteredMap, Head(keys), filteredSubMap.val), m, filteredMap, Tail(keys))
                 ELSE stripKeysInPlace(filteredSubMap.h, m, filteredMap, Tail(keys))

\* filteredMap := make(map[string]interface{}, len(m)), then the loop
DeleteNullInUnstructuredMapInPlace(h, m) ==
  stripKeysInPlace(alloc(h, [t |-> "map", v |-> << >>]).h, m, Ref(Len(h) + 1), SetToSeq(DOMAIN NodeV(h, m)))

\* the loop over the elements of m from index idx on: the only slice written
\* to is filteredSlice
stripItemsInPlace(h, m, filteredSlice, idx) ==
  IF idx > Len(NodeV(h, m)) THEN Done(h, filteredSlice)
  ELSE LET val == NodeV(h, m)[idx]
           sub == IF TypeOf(h, val) = "list" THEN DeleteNullInUnstructuredSliceInPlace(h, val)
                  ELSE IF TypeOf(h, val) = "map" THEN DeleteNullInUnstructuredMapInPlace(h, val)
                  ELSE IF val.t \in {"null", "string", "float64", "bool", "int64"} THEN Done(h, val)
                  ELSE Failed(h, "UnsupportedType")
       IN IF sub.err # "" THEN sub
          ELSE stripItemsInPlace([sub.h EXCEPT ![filteredSlice.a].v[idx] = sub.val], m, filteredSlice, idx + 1)

\* filteredSlice := make([]interface{}, len(m)), then the loop
DeleteNullInUnstructuredSliceInPlace(h, m) ==
  stripItemsInPlace(alloc(h, [t |-> "list", v |-> [i \in 1..Len(NodeV(h, m)) |-> Null]]).h, m, Ref(Len(h) + 1), 1)

(***************************************************************************)
(* SpecInPlace: the caller holds four documents in memory and calls Merge  *)
(* on the first three or the stripper on the fourth.  After the call the   *)
(* four variables hold what the caller finds in its documents.             *)
(***************************************************************************)
\* the values of the field f of the documents that Merge is called on in
\* memory: nested maps, lists of maps keyed by name, a list of mixed
\* elements, lists of scalars, scalars, nil maps and nil slices
InPlaceValues ==
  InnerMaps
  \cup {Null, Str("x"), PlainInt(7), NilMap, NilList, List(<< >>), List(<< Str("x") >>)}
  \cup {List(<< Map(("name" :> Str("a")) @@ ("v" :> Str("x"))) >>),
        List(<< Map(("name" :> Str("a")) @@ ("v" :> Str("y"))) >>),
        List(<< Map(("name" :> Str("b")) @@ ("v" :> Str("x"))) >>),
        List(<< Map(("name" :> Str("a")) @@ ("v" :> Str("x"))), Map(("name" :> Str("b")) @@ ("v" :> Str("x"))) >>),
        List(<< Map(("name" :> Str("b")) @@ ("v" :> Str("x"))), Map(("name" :> Str("a")) @@ ("v" :> Str("y"))) >>),
        List(<< Map(("name" :> Str("a")) @@ ("v" :> Str("x"))), Map(("name" :> Str("a")) @@ ("v" :> Str("y"))) >>),
        List(<< Map(("name" :> Str("a")) @@ ("v" :> Str("x"))), Str("x") >>)}

\* what lastApplied holds besides nothing, observed's document or desired's
InPlaceLastApplied ==
  Field({Map("q" :> Str("x")), Map("p" :> Map("r" :> Str("x"))),
         List(<< Map(("name" :> Str("b")) @@ ("v" :> Str("y"))) >>)})

\* the documents the stripper is called on in memory
InPlaceDocs == {Map(f) : f \in [{"a"} -> StripValues(StripDepth)]}

InitInPlace ==
  /\ pc = "ready"
  /\ lists = << >>
  /\ result = Idle
  /\ prev = Idle
  /\ round = 0
  /\ NoCluster
  /\ NoCallers
  /\ \/ /\ doc = NilMap
        /\ observed \in Field(InPlaceValues) \cup {EmptyMap, NilMap}
        /\ desired \in Field(InPlaceValues) \cup {EmptyMap, NilMap}
        /\ lastApplied \in {NilMap, observed, desired} \cup InPlaceLastApplied
     \/ doc \in InPlaceDocs /\ observed = NilMap /\ lastApplied = NilMap /\ desired = NilMap

\* the caller's heap: the four documents and the references to them
callerHeap == storeAll(<< >>, << observed, lastApplied, desired, doc >>, << >>)

\* what the caller finds in its four documents on the heap h
found(h) == [i \in 1..4 |-> load(h, callerHeap.rs[i])]

\* the variables after a call that left the heap h and returned out
Returned(out) ==
  /\ result' = [err |-> out.err, val |-> load(out.h, out.val)]
  /\ observed' = found(out.h)[1]
  /\ lastApplied' = found(out.h)[2]
  /\ desired' = found(out.h)[3]
  /\ doc' = found(out.h)[4]
  /\ UNCHANGED << cluster, given, baseRunOptions, callers, lists, prev, round >>

\* the caller invokes Merge(observed, lastApplied, desired)
MergeInPlaceCall ==
  /\ pc = "ready"
  /\ pc' = "merged"
  /\ Returned(MergeInPlace(callerHeap.h, callerHeap.rs[1], callerHeap.rs[2], callerHeap.rs[3]))

\* the caller invokes DeleteNullInUnstructuredMap(doc)
StripInPlaceCall ==
  /\ pc = "ready"
  /\ pc' = "stripped"
  /\ Returned(DeleteNullInUnstructuredMapInPlace(callerHeap.h, callerHeap.rs[4]))

NextInPlace == MergeInPlaceCall \/ StripInPlaceCall

SpecInPlace == InitInPlace /\ [][NextInPlace]_vars

(***************************************************************************)
(* C22: neither Merge nor the stripper writes to its arguments: whatever   *)
(* the call returns, the caller's observed, lastApplied, desired and doc   *)
(* are after the call what they were before it.                            *)
(***************************************************************************)
C22_ArgumentsKept ==
  [][/\ observed' = observed
     /\ lastApplied' = lastApplied
     /\ desired' = desired
     /\ doc' = doc]_vars

\* a merge that wrote to its destination: it deleted a key of a nested map
\* of the copy of observed and the call returned the outcome
C22_Witness ==
  /\ pc = "merged"
  /\ result.err = ""
  /\ \E k \in DOMAIN observed.v \cap DOMAIN MapV(result.val) :
       /\ IsMap(observed.v[k]) /\ IsMap(result.val.v[k])
       /\ \E j \in DOMAIN observed.v[k].v : j \notin DOMAIN result.val.v[k].v

(***************************************************************************)
(* CreateOrMerge against a cluster.  The cluster is the environment of the *)
(* program: it holds at most one object under the name that desired        *)
(* carries, it stamps every object it stores with a fresh                  *)
(* metadata.resourceVersion, and it serves an Update only when the request *)
(* carries the resourceVersion of the stored object.  Its status           *)
(* sub-resource is enabled, as the call of Status().Update presupposes:    *)
(* Update leaves the stored status alone and Status().Update replaces      *)
(* nothing else.                                                           *)
(***************************************************************************)
\* how many times the caller invokes CreateOrMerge
MaxCalls == 2
\* how many writes another client makes to the object
MaxOtherWrites == 1

OperationResultNone == "unchanged"
OperationResultCreated == "created"
OperationResultUpdatedResourceOnly == "updated-resource-only"
OperationResultUpdatedResourceAndStatus == "updated-resource-and-status"

\* the resourceVersion that the cluster stamps on its n-th write
resourceVersionAt(n) == Str(<< "1", "2", "3", "4", "5", "6", "7", "8", "9" >>[n])

\* GetResourceVersion: "" unless metadata.resourceVersion holds a string
GetResourceVersion(obj) ==
  LET looked == NestedFieldNoCopy(obj, << "metadata", "resourceVersion" >>) IN
  IF looked.found /\ looked.err = "" /\ looked.val.t = "string" THEN looked.val.v ELSE ""

\* SetResourceVersion
SetResourceVersion(obj, version) ==
  SetNestedField(obj, version, << "metadata", "resourceVersion" >>).val

\* the cluster after it served a write that left object: the log keeps the
\* kind of the write and the call of CreateOrMerge that issued it (0 for a
\* write of another client)
served(c, op, call, object) ==
  [object |-> SetResourceVersion(object, resourceVersionAt(Len(c.log) + 1)),
   log |-> Append(c.log, [op |-> op, call |-> call])]

\* cli.Get: the stored object, or the NotFound error
clusterGet(c) == IF c.object = Null THEN Err("NotFound") ELSE Ok(c.object)

\* cli.Create: refused when the object exists or the request carries a
\* resourceVersion; the status of the request is not stored
clusterCreate(c, call, obj) ==
  IF c.object # Null THEN [err |-> "AlreadyExists", cluster |-> c]
  ELSE IF GetResourceVersion(obj) # "" THEN [err |-> "Invalid", cluster |-> c]
  ELSE [err |-> "", cluster |-> served(c, "create", call, jsonValue(Del(obj, "status")))]

\* the stored object with everything but its status taken from the request
withoutStatusOf(stored, obj) ==
  IF "status" \in DOMAIN stored.v THEN Put(Del(obj, "status"), "status", stored.v["status"])
  ELSE Del(obj, "status")

\* the stored object with its status taken from the request
withStatusOf(stored, obj) ==
  IF "status" \in DOMAIN obj.v THEN Put(stored, "status", obj.v["status"])
  ELSE Del(stored, "status")

\* cli.Update and cli.Status().Update: refused when the object is gone or
\* the request carries a resourceVersion that is not the stored one
clusterUpdate(c, op, call, obj) ==
  IF c.object = Null THEN [err |-> "NotFound", cluster |-> c]
  ELSE IF GetResourceVersion(obj) \notin {"", GetResourceVersion(c.object)} THEN [err |-> "Conflict", cluster |-> c]
  ELSE [err |-> "",
        cluster |-> served(c, op, call, jsonValue(IF op = "update" THEN withoutStatusOf(c.object, obj)
                                                  ELSE withStatusOf(c.object, obj)))]

\* IsStatusSubResourceSet: reflect's IsNil panics on a status that is
\* neither a map nor a slice
IsStatusSubResourceSet(obj) ==
  LET status == Get(obj.v, "status") IN
  IF IsNull(status) THEN Ok(FALSE)
  ELSE IF ~(IsMap(status) \/ IsList(status)) THEN Err("panic")
  ELSE IF status.nil THEN Ok(FALSE)
  ELSE IF IsMap(status) THEN Ok(DOMAIN status.v # {})
  ELSE Ok(Len(status.v) # 0)

\* createOrMerge gives up before any write
mergeFailed(e) == [err |-> e, equal |-> FALSE, merged |-> Null]

\* createOrMerge from the overlay on: the merged object takes the system
\* fields of the observed one, and the two are compared
mergeCompared(mergedObj, observedObj) ==
  [err |-> "", equal |-> DeepEqual(observedObj, mergedObj), merged |-> mergedObj]

\* createOrMerge from the conversion of the observed map on
mergeObserved(mergedObj, observedObj) ==
  IF observedObj.err # "" THEN mergeFailed(observedObj.err)
  ELSE mergeCompared(overrideObjectMetaSystemFields(mergedObj, observedObj.val).val, observedObj.val)

\* createOrMerge from the conversion of the merged map on
mergeMerged(observedUnstruct, mergedUnstruct) ==
  IF mergedUnstruct.err # "" THEN mergeFailed(mergedUnstruct.err)
  ELSE IF FromUnstructured(mergedUnstruct.val).err # "" THEN mergeFailed(FromUnstructured(mergedUnstruct.val).err)
  ELSE mergeObserved(FromUnstructured(mergedUnstruct.val).val, FromUnstructured(observedUnstruct))

\* createOrMerge from the merge on
mergeStripped(observedUnstruct, desiredUnstruct) ==
  IF desiredUnstruct.err # "" THEN mergeFailed(desiredUnstruct.err)
  ELSE mergeMerged(observedUnstruct, ThreeWayLocalMergeWithTwoObjects(observedUnstruct, desiredUnstruct.val))

\* createOrMerge from the stripping of desired on
mergeConverted(observedUnstruct, desiredUnstruct) ==
  IF observedUnstruct.err # "" THEN mergeFailed(observedUnstruct.err)
  ELSE IF desiredUnstruct.err # "" THEN mergeFailed(desiredUnstruct.err)
  ELSE mergeStripped(observedUnstruct.val, DeleteNullInUnstructuredMap(desiredUnstruct.val))

\* createOrMerge between the Get and the Update: the error, whether the
\* observed and the merged object are equal, and the merged object
mergeForUpdate(observedObject, desiredObject) ==
  mergeConverted(ToUnstructured(observedObject), ToUnstructured(desiredObject))

\* whether createOrMerge goes on to Status().Update after its Update
statusWanted(desiredObject) ==
  LET desiredUnstruct == DeleteNullInUnstructuredMap(ToUnstructured(desiredObject).val) IN
  IF desiredUnstruct.err # "" THEN Err(desiredUnstruct.err) ELSE IsStatusSubResourceSet(desiredUnstruct.val)

(***************************************************************************)
(* The objects CreateOrMerge is exercised on: desired carries a name, a    *)
(* field f or none, and a status or none; the cluster holds nothing or an  *)
(* object that another client created.                                     *)
(***************************************************************************)
UpsertTypeMeta == ("kind" :> Str("K")) @@ ("apiVersion" :> Str("v1"))

UpsertObjects(metas, fields, statuses) ==
  {Map(UpsertTypeMeta @@ ("metadata" :> md) @@ fd @@ st) :
     md \in metas,
     fd \in {<< >>} \cup {"f" :> w : w \in fields},
     st \in {<< >>} \cup {"status" :> w : w \in statuses}}

\* what the caller wants applied
UpsertDesired ==
  UpsertObjects({Map("name" :> Str("n")), Map(("name" :> Str("n")) @@ ("resourceVersion" :> Str("9")))},
                {Str("x"), Str("y"), Bool(FALSE), List(<< >>), NilList, List(<< Str("x") >>),
                 List(<< EqualItems[1] >>), List(<< EqualItems[1], EqualItems[2] >>)},
                {EmptyMap, Map("phase" :> Str("a")), Map("phase" :> Str("b"))})

\* what the cluster holds before the caller starts
UpsertStored ==
  UpsertObjects({Map("name" :> Str("n"))},
                {Str("x"), List(<< Str("x") >>), List(<< EqualItems[1] >>), List(<< EqualItems[1], EqualItems[2] >>)},
                {Map("phase" :> Str("a"))})

\* what another client writes: a field g that desired never carries
otherWrite(object) ==
  IF object = Null THEN Map(UpsertTypeMeta @@ ("metadata" :> Map("name" :> Str("n"))) @@ ("g" :> Str("other")))
  ELSE Put(object, "g", Str("other"))

\* the writes that another client made while the caller was at work
otherWrites(c) == Len(SelectSeq(c.log, LAMBDA w : w.call = 0 /\ w.op # "seed"))

(***************************************************************************)
(* SpecUpsert: the caller invokes CreateOrMerge up to MaxCalls times, with *)
(* the object it passed before or with a fresh copy of given, while        *)
(* another client writes to the same object.  Every request to the cluster *)
(* is a step of its own.                                                   *)
(***************************************************************************)
InitUpsert ==
  /\ pc = "ready"
  /\ given \in UpsertDesired
  /\ desired = given
  /\ observed = Null
  /\ lastApplied = NilMap
  /\ doc = NilMap
  /\ lists = << >>
  /\ result = Idle
  /\ prev = Idle
  /\ round = 0
  /\ cluster \in {EmptyCluster} \cup {served(EmptyCluster, "seed", 0, o) : o \in UpsertStored}
  /\ NoCallers

\* the caller invokes CreateOrMerge(desired)
CreateOrMergeCall ==
  /\ pc \in {"ready", "returned"}
  /\ round < MaxCalls
  /\ round' = round + 1
  /\ desired' \in {desired, given}
  /\ prev' = result
  /\ pc' = "get"
  /\ UNCHANGED << cluster, given, baseRunOptions, callers, observed, lastApplied, doc, lists, result >>

\* createOrMerge returns after the Get: the object is not there (on to
\* Create), the merge failed, the merged object equals the observed one,
\* or it does not (on to Update)
MergedLocally(plan) ==
  /\ observed' = cluster.object
  /\ doc' = plan.merged
  /\ result' = IF plan.err # "" THEN [err |-> plan.err, val |-> OperationResultNone]
               ELSE IF plan.equal THEN [err |-> "", val |-> OperationResultNone]
               ELSE result
  /\ pc' = IF plan.err # "" THEN "returned" ELSE IF plan.equal THEN "refresh" ELSE "update"

\* cli.Get(observed), and what createOrMerge does before its next request
GetObserved ==
  /\ pc = "get"
  /\ IF clusterGet(cluster).err # ""
     THEN observed' = Null /\ doc' = Null /\ result' = result /\ pc' = "create"
     ELSE MergedLocally(mergeForUpdate(cluster.object, desired))
  /\ UNCHANGED << cluster, given, baseRunOptions, callers, lastApplied, desired, lists, prev, round >>

\* cli.Create(desired), which writes the stored object back into desired
CreateDesired ==
  /\ pc = "create"
  /\ cluster' = clusterCreate(cluster, round, desired).cluster
  /\ IF clusterCreate(cluster, round, desired).err # ""
     THEN /\ result' = [err |-> clusterCreate(cluster, round, desired).err, val |-> OperationResultNone]
          /\ desired' = desired
          /\ pc' = "returned"
     ELSE /\ result' = [err |-> "", val |-> OperationResultCreated]
          /\ desired' = cluster'.object
          /\ pc' = "refresh"
  /\ UNCHANGED << given, baseRunOptions, callers, observed, lastApplied, doc, lists, prev, round >>

\* createOrMerge after a served Update: the status of desired decides
\* whether Status().Update follows, with the resourceVersion of the response
Updated(wanted) ==
  IF wanted.err = "" /\ wanted.val
  THEN /\ doc' = SetResourceVersion(doc, Str(GetResourceVersion(cluster'.object)))
       /\ result' = result
       /\ pc' = "status"
  ELSE /\ doc' = doc
       /\ result' = [err |-> wanted.err, val |-> OperationResultUpdatedResourceOnly]
       /\ pc' = IF wanted.err = "" THEN "refresh" ELSE "returned"

\* cli.Update(mergedObj)
UpdateMerged ==
  /\ pc = "update"
  /\ cluster' = clusterUpdate(cluster, "update", round, doc).cluster
  /\ IF clusterUpdate(cluster, "update", round, doc).err # ""
     THEN /\ result' = [err |-> clusterUpdate(cluster, "update", round, doc).err, val |-> OperationResultNone]
          /\ doc' = doc
          /\ pc' = "returned"
     ELSE Updated(statusWanted(desired))
  /\ UNCHANGED << given, baseRunOptions, callers, observed, lastApplied, desired, lists, prev, round >>

\* cli.Status().Update(mergedStatusObj)
UpdateStatus ==
  /\ pc = "status"
  /\ cluster' = clusterUpdate(cluster, "status", round, doc).cluster
  /\ IF clusterUpdate(cluster, "status", round, doc).err # ""
     THEN /\ result' = [err |-> clusterUpdate(cluster, "status", round, doc).err, val |-> OperationResultUpdatedResourceOnly]
          /\ pc' = "returned"
     ELSE /\ result' = [err |-> "", val |-> OperationResultUpdatedResourceAndStatus]
          /\ pc' = "refresh"
  /\ UNCHANGED << given, baseRunOptions, callers, observed, lastApplied, desired, doc, lists, prev, round >>

\* CreateOrMerge after createOrMerge returned no error: cli.Get(desired),
\* whose error is dropped
Refresh ==
  /\ pc = "refresh"
  /\ desired' = IF clusterGet(cluster).err = "" THEN clusterGet(cluster).val ELSE desired
  /\ pc' = "returned"
  /\ UNCHANGED << cluster, given, baseRunOptions, callers, observed, lastApplied, doc, lists, result, prev, round >>

\* another client creates the object or updates it, while a call is under way
OtherWrite ==
  /\ pc \in {"get", "create", "update", "status", "refresh"}
  /\ otherWrites(cluster) < MaxOtherWrites
  /\ cluster' = served(cluster, IF cluster.object = Null THEN "create" ELSE "update", 0, otherWrite(cluster.object))
  /\ UNCHANGED << given, baseRunOptions, callers, pc, observed, lastApplied, desired, doc, lists, result, prev, round >>

NextUpsert ==
  CreateOrMergeCall \/ GetObserved \/ CreateDesired \/ UpdateMerged \/ UpdateStatus \/ Refresh \/ OtherWrite

SpecUpsert == InitUpsert /\ [][NextUpsert]_vars

(***************************************************************************)
(* C23: CreateOrMerge returns one of None, Created, UpdatedResourceOnly    *)
(* and UpdatedResourceAndStatus, and a call that returned no error tells   *)
(* by it what the merge changed: Created iff the object was absent, and    *)
(* for an object that was there None iff the merged object differs from    *)
(* the observed one neither in its body nor in its status,                 *)
(* UpdatedResourceOnly iff it differs in its body only, and                *)
(* UpdatedResourceAndStatus iff it differs in both.                        *)
(* This is the claim as stated; the code tells by the value whether        *)
(* desired carries a status, not whether the merge changed it.             *)
(***************************************************************************)
\* an object but for its status and its resourceVersion
C23_Body(x) == RemoveNestedField(Del(x, "status"), << "metadata", "resourceVersion" >>)

C23_BodyChanged == ~DeepEqual(C23_Body(observed), C23_Body(doc))
C23_StatusChanged == ~DeepEqual(Get(observed.v, "status"), Get(doc.v, "status"))

C23_ResultTellsChange ==
  (pc = "returned" /\ result.err = "") =>
    /\ result.val \in {OperationResultNone, OperationResultCreated,
                       OperationResultUpdatedResourceOnly, OperationResultUpdatedResourceAndStatus}
    /\ (result.val = OperationResultCreated) <=> (observed = Null)
    /\ observed # Null =>
         /\ (result.val = OperationResultNone) <=> (~C23_BodyChanged /\ ~C23_StatusChanged)
         /\ (result.val = OperationResultUpdatedResourceOnly) <=> (C23_BodyChanged /\ ~C23_StatusChanged)
         /\ (result.val = OperationResultUpdatedResourceAndStatus) <=> (C23_BodyChanged /\ C23_StatusChanged)

(***************************************************************************)
(* C24: when a call of CreateOrMerge returned no error and no other client *)
(* wrote to the object, a second call with the same desired returns None   *)
(* with no error and issues no Create, no Update and no status Update.     *)
(* This is the claim as stated; the code updates again an object of which  *)
(* a list holds two maps with the same merge key.                          *)
(***************************************************************************)
\* the writes that the given call of CreateOrMerge issued
C24_WritesOf(call) == SelectSeq(cluster.log, LAMBDA w : w.call = call)

C24_ReapplyIsNoOp ==
  (/\ pc = "returned"
   /\ round = 2
   /\ prev.err = ""
   /\ otherWrites(cluster) = 0)
    => (/\ result = [err |-> "", val |-> OperationResultNone]
        /\ C24_WritesOf(2) = << >>)

(***************************************************************************)
(* Get and the assertions on the presence of an object.                    *)
(***************************************************************************)
\* Get(ctx, given): the object found in the cluster, or nil and the error
\* of the client
GetObject(c, givenObject) ==
  IF givenObject = Null THEN Err("nil object")
  ELSE IF clusterGet(c).err # "" THEN Err("failed to get")
  ELSE Ok(clusterGet(c).val)

\* what Assert returns: result, diff and err
Asserted(res, diff, e) == [val |-> res, diff |-> diff, err |-> e]

\* Assert with AssertTypeIsNotFound
AssertIsNotFound(c, givenObject) ==
  LET actual == GetObject(c, givenObject) IN
  IF actual.err # "" THEN Asserted(FALSE, "", actual.err)
  ELSE IF actual.val = Null THEN Asserted(TRUE, "", "")
  ELSE Asserted(FALSE, "found a resource while expecting none", "")

\* Assert with AssertTypeIsFound
AssertIsFound(c, givenObject) ==
  LET actual == GetObject(c, givenObject) IN
  IF actual.err # "" THEN Asserted(FALSE, "", actual.err)
  ELSE IF actual.val # Null THEN Asserted(TRUE, "", "")
  ELSE Asserted(FALSE, "resource was not found while expecting one", "")

(***************************************************************************)
(* SpecAssert: the caller asserts that the object is not in the cluster,   *)
(* or that it is.                                                          *)
(***************************************************************************)
InitAssert ==
  /\ pc = "ready"
  /\ given \in UpsertDesired
  /\ desired = given
  /\ observed = Null
  /\ lastApplied = NilMap
  /\ doc = NilMap
  /\ lists = << >>
  /\ result = Idle
  /\ prev = Idle
  /\ round = 0
  /\ cluster \in {EmptyCluster} \cup {served(EmptyCluster, "seed", 0, o) : o \in UpsertStored}
  /\ NoCallers

\* the caller invokes AssertIsNotFound(given)
AssertIsNotFoundCall ==
  /\ pc = "ready"
  /\ result' = AssertIsNotFound(cluster, given)
  /\ pc' = "asserted-not-found"
  /\ UNCHANGED << cluster, given, baseRunOptions, callers, observed, lastApplied, desired, doc, lists, prev, round >>

\* the caller invokes AssertIsFound(given)
AssertIsFoundCall ==
  /\ pc = "ready"
  /\ result' = AssertIsFound(cluster, given)
  /\ pc' = "asserted-found"
  /\ UNCHANGED << cluster, given, baseRunOptions, callers, observed, lastApplied, desired, doc, lists, prev, round >>

NextAssert == AssertIsNotFoundCall \/ AssertIsFoundCall

SpecAssert == InitAssert /\ [][NextAssert]_vars

(***************************************************************************)
(* C25: AssertIsNotFound returns result = true and no error when the       *)
(* object is not in the cluster, and result = false when it is.            *)
(* This is the claim as stated; the code returns false and the error of    *)
(* Get when the object is not in the cluster.                              *)
(***************************************************************************)
C25_NotFoundIsAsserted ==
  pc = "asserted-not-found" =>
    IF cluster.object = Null THEN result.val = TRUE /\ result.err = ""
    ELSE result.val = FALSE

(***************************************************************************)
(* Lists of strings (pkg/util/list.go).                                    *)
(***************************************************************************)
MaxGivenLen == 2
MaxMoreLen == 2

\* make([]string, n): a slice of n empty strings
makeStrings(n) == [i \in 1..n |-> ""]

\* one pass of "if _, found := seen[e]; !found && e != """ over entries,
\* appending the entries it keeps to the list built so far
RECURSIVE appendIfValid(_, _, _)
appendIfValid(entries, seen, built) ==
  IF entries = << >> THEN [seen |-> seen, list |-> built]
  ELSE IF Head(entries) \notin seen /\ Head(entries) # ""
       THEN appendIfValid(Tail(entries), seen \cup {Head(entries)}, Append(built, Head(entries)))
       ELSE appendIfValid(Tail(entries), seen, built)

AddToListIfValid(givenList, add, more) ==
  appendIfValid(givenList \o << add >> \o more, {},
                makeStrings(Len(givenList) + Len(more) + 1)).list

RemoveFromListIfValid(givenList, remove, more) ==
  LET removals == ({remove} \cup {more[i] : i \in 1..Len(more)}) \ {""} IN
  appendIfValid(givenList, removals, makeStrings(Len(givenList))).list

ListEntries == {"", "a", "b"}
StringLists(n) == UNION {[1..k -> ListEntries] : k \in 0..n}

(***************************************************************************)
(* SpecList: a caller adds entries to a list or removes entries from it.   *)
(***************************************************************************)
InitList ==
  /\ pc = "ready"
  /\ lists \in [given : StringLists(MaxGivenLen), entry : ListEntries, more : StringLists(MaxMoreLen)]
  /\ observed = Null
  /\ lastApplied = NilMap
  /\ desired = NilMap
  /\ doc = NilMap
  /\ result = Idle
  /\ prev = Idle
  /\ round = 0
  /\ NoCluster
  /\ NoCallers

AddToListCall ==
  /\ pc = "ready"
  /\ result' = Ok(AddToListIfValid(lists.given, lists.entry, lists.more))
  /\ pc' = "added"
  /\ UNCHANGED << cluster, given, baseRunOptions, callers, observed, lastApplied, desired, doc, lists, prev, round >>

RemoveFromListCall ==
  /\ pc = "ready"
  /\ result' = Ok(RemoveFromListIfValid(lists.given, lists.entry, lists.more))
  /\ pc' = "removed"
  /\ UNCHANGED << cluster, given, baseRunOptions, callers, observed, lastApplied, desired, doc, lists, prev, round >>

NextList == AddToListCall \/ RemoveFromListCall

SpecList == InitList /\ [][NextList]_vars

\* the entries of s that are not empty, not in skip, and not seen earlier
\* in s, in the order of s
C26_Distinct(s, skip) ==
  LET kept == {i \in 1..Len(s) : s[i] # "" /\ s[i] \notin skip /\ \A j \in 1..(i - 1) : s[j] # s[i]}
      nth[n \in 0..Len(s)] == IF n = 0 THEN 0
                              ELSE CHOOSE i \in kept : i > nth[n - 1] /\ \A j \in kept : j > nth[n - 1] => i <= j
  IN [n \in 1..Cardinality(kept) |-> s[nth[n]]]

(***************************************************************************)
(* C26: AddToListIfValid returns the distinct non-empty entries of given   *)
(* followed by add and more (if non-empty and not yet present), and        *)
(* RemoveFromListIfValid returns the distinct non-empty entries of given   *)
(* that are not among remove and more; neither result holds an empty       *)
(* string or a duplicate.                                                  *)
(* This is the claim as stated; the code starts the result with as many    *)
(* empty strings as the capacity it meant to reserve.                      *)
(***************************************************************************)
C26_ListIsValid ==
  /\ pc = "added" =>
       result.val = C26_Distinct(lists.given \o << lists.entry >> \o lists.more, {})
  /\ pc = "removed" =>
       result.val = C26_Distinct(lists.given, {lists.entry} \cup {lists.more[i] : i \in 1..Len(lists.more)})
  /\ pc \in {"added", "removed"} =>
       /\ \A i \in 1..Len(result.val) : result.val[i] # ""
       /\ \A i, j \in 1..Len(result.val) : result.val[i] = result.val[j] => i = j

(***************************************************************************)
(* C27: CreateOrMerge never silently overwrites a concurrent write.  The   *)
(* Update it issues carries the resourceVersion of the object that its Get *)
(* fetched; when another client changed the object between that Get and    *)
(* the Update, the Update is refused, CreateOrMerge returns the error with *)
(* result None and makes no further request, and the change of the other   *)
(* client stays in the cluster.                                            *)
(***************************************************************************)
\* the requests of the call under way that the cluster served
C27_Served == SelectSeq(cluster.log, LAMBDA w : w.call = round)

\* the change of the other client is in the cluster
C27_OtherChangeStays ==
  otherWrites(cluster) > 0 => (cluster.object # Null /\ Get(cluster.object.v, "g") = Str("other"))

\* the Update is about to be issued after another client wrote since the Get
C27_Overtaken == pc = "update" /\ cluster.object # observed

C27_NoSilentOverwrite ==
  /\ [](pc = "update" => GetResourceVersion(doc) = GetResourceVersion(observed))
  /\ []C27_OtherChangeStays
  /\ [][(C27_Overtaken /\ pc' # pc) =>
          /\ cluster' = cluster
          /\ result' = [err |-> "Conflict", val |-> OperationResultNone]
          /\ pc' = "returned"
          /\ C27_Served = << >>]_vars

\* a call returned the conflict after another client changed the object
\* that the call had fetched
C27_Witness ==
  /\ pc = "returned"
  /\ result = [err |-> "Conflict", val |-> OperationResultNone]
  /\ observed # Null
  /\ cluster.object # observed
  /\ Get(cluster.object.v, "g") = Str("other")
  /\ Get(observed.v, "g") # Str("other")
  /\ C27_Served = << >>

(***************************************************************************)
(* C28: when the observed object has a populated list field and desired    *)
(* sets that field to an explicit empty list or to nil, the change is not  *)
(* registered: CreateOrMerge returns None and issues no update, and the    *)
(* observed list keeps its elements.                                       *)
(***************************************************************************)
\* createOrMerge has returned without an error on an object whose list f
\* is populated; desired carries no status and sets f to list
C28_ListSetTo(list) ==
  /\ pc = "refresh"
  /\ observed # Null
  /\ IsList(Get(observed.v, "f"))
  /\ Len(observed.v["f"].v) > 0
  /\ "status" \notin DOMAIN desired.v
  /\ Get(desired.v, "f") = list

\* the requests of the call under way that the cluster served
C28_Served == SelectSeq(cluster.log, LAMBDA w : w.call = round)

C28_NotRegistered ==
  /\ result = [err |-> "", val |-> OperationResultNone]
  /\ C28_Served = << >>
  /\ Get(cluster.object.v, "f") = observed.v["f"]

C29_OnePerMergeKey ==
  Merged => \A s \in Lists :
    LET mergeKey == SiteKey(s)
        obs == KeySet(mergeKey, s.o.v)
        last == KeySet(mergeKey, ListV(s.l))
        des == KeySet(mergeKey, ListV(s.d))
        out == KeySeq(mergeKey, ListV(s.m))
    IN mergeKey # "" =>
         /\ \A i, j \in 1..Len(out) : out[i] = out[j] => i = j
         /\ Len(out) = Cardinality((obs \ (last \ des)) \cup des)

(***************************************************************************)
(* RegisterBaseRunOptions: the package variables _baseRunOptions,          *)
(* _isBaseRunOptionsRegistered and _baseRunOptionsOnce, and the goroutines *)
(* that call the function.  Every access to a package variable is a step   *)
(* of its own.                                                             *)
(***************************************************************************)
MaxCallers == 3

\* the *RunOptions a caller passes
RunOptionsGiven == {"nil", "A", "B"}

\* a goroutine before its call
Caller(options) == [pc |-> "call", options |-> options, ret |-> "none"]

\* the goroutine returns ret
returns(caller, ret) == [caller EXCEPT !.pc = "returned", !.ret = ret]
\* the goroutine moves on to the next statement
goes(caller, to) == [caller EXCEPT !.pc = to]

\* what a read of _isBaseRunOptionsRegistered may yield: the read is not
\* synchronised with the write inside Do, so it may miss a write of another
\* goroutine
registeredSeen(b) == {b.registered, FALSE}

InitRegister ==
  /\ pc = "ready"
  /\ observed = Null
  /\ lastApplied = NilMap
  /\ desired = NilMap
  /\ doc = NilMap
  /\ lists = << >>
  /\ result = Idle
  /\ prev = Idle
  /\ round = 0
  /\ NoCluster
  /\ baseRunOptions = Unregistered
  /\ callers \in UNION {[1..n -> {Caller(o) : o \in RunOptionsGiven}] : n \in 1..MaxCallers}

\* if options == nil { return errors.New("nil base run options") }
CheckOptions ==
  \E i \in 1..Len(callers) :
    /\ callers[i].pc = "call"
    /\ callers' = [callers EXCEPT ![i] = IF callers[i].options = "nil"
                                          THEN returns(callers[i], "nil base run options")
                                          ELSE goes(callers[i], "check")]
    /\ UNCHANGED << baseRunOptions, pc, observed, lastApplied, desired, doc, lists, result, prev, round, cluster, given >>

\* if _isBaseRunOptionsRegistered { return errors.New("... already registered") }
CheckRegistered ==
  \E i \in 1..Len(callers) :
    /\ callers[i].pc = "check"
    /\ \E seen \in registeredSeen(baseRunOptions) :
         callers' = [callers EXCEPT ![i] = IF seen
                                           THEN returns(callers[i], "base run options already registered")
                                           ELSE goes(callers[i], "once")]
    /\ UNCHANGED << baseRunOptions, pc, observed, lastApplied, desired, doc, lists, result, prev, round, cluster, given >>

\* _baseRunOptionsOnce.Do: the first goroutine runs the function, one that
\* arrives while it runs waits, and one that arrives later returns nil
EnterOnce ==
  \E i \in 1..Len(callers) :
    /\ callers[i].pc = "once"
    /\ baseRunOptions.once # "running"
    /\ IF baseRunOptions.once = "idle"
       THEN /\ baseRunOptions' = [baseRunOptions EXCEPT !.once = "running"]
            /\ callers' = [callers EXCEPT ![i] = goes(callers[i], "store options")]
       ELSE /\ baseRunOptions' = baseRunOptions
            /\ callers' = [callers EXCEPT ![i] = returns(callers[i], "nil")]
    /\ UNCHANGED << pc, observed, lastApplied, desired, doc, lists, result, prev, round, cluster, given >>

\* _baseRunOptions = options
StoreOptions ==
  \E i \in 1..Len(callers) :
    /\ callers[i].pc = "store options"
    /\ baseRunOptions' = [baseRunOptions EXCEPT !.options = callers[i].options]
    /\ callers' = [callers EXCEPT ![i] = goes(callers[i], "store registered")]
    /\ UNCHANGED << pc, observed, lastApplied, desired, doc, lists, result, prev, round, cluster, given >>

\* _isBaseRunOptionsRegistered = true
StoreRegistered ==
  \E i \in 1..Len(callers) :
    /\ callers[i].pc = "store registered"
    /\ baseRunOptions' = [baseRunOptions EXCEPT !.registered = TRUE]
    /\ callers' = [callers EXCEPT ![i] = goes(callers[i], "leave once")]
    /\ UNCHANGED << pc, observed, lastApplied, desired, doc, lists, result, prev, round, cluster, given >>

\* Do returns, and so does RegisterBaseRunOptions: return nil
LeaveOnce ==
  \E i \in 1..Len(callers) :
    /\ callers[i].pc = "leave once"
    /\ baseRunOptions' = [baseRunOptions EXCEPT !.once = "done"]
    /\ callers' = [callers EXCEPT ![i] = returns(callers[i], "nil")]
    /\ UNCHANGED << pc, observed, lastApplied, desired, doc, lists, result, prev, round, cluster, given >>

NextRegister ==
  CheckOptions \/ CheckRegistered \/ EnterOnce \/ StoreOptions \/ StoreRegistered \/ LeaveOnce

SpecRegister == InitRegister /\ [][NextRegister]_vars

(***************************************************************************)
(* C30: the base run options are registered at most once, also under       *)
(* concurrent callers: of the calls to RegisterBaseRunOptions with non-nil *)
(* options at most one returns nil, and the options of every call that     *)
(* returned nil are the ones stored in the base run options.               *)
(* This is the claim as stated; the code lets every caller that read the   *)
(* flag before it was set return nil.                                      *)
(***************************************************************************)
C30_Registered == {i \in 1..Len(callers) : callers[i].pc = "returned" /\ callers[i].ret = "nil"}

C30_RegisteredOnce ==
  /\ Cardinality(C30_Registered) <= 1
  /\ \A i \in C30_Registered : baseRunOptions.options = callers[i].options

====
